---------------------------- MODULE Spec2Model ----------------------------
(***************************************************************************)
(* Model of the plain-text export utility (plain-text-export.ts,           *)
(* src/unnamed/part_003): generatePlainText and extractTextContent over    *)
(* serialized editor states; and, each under a specification of its own,   *)
(* of RichTextDisplay (src/unnamed/part_011), of OnChangePlugin            *)
(* (src/unnamed/part_001) and of debounce (CodeActionMenuPlugin/utils.ts). *)
(*                                                                         *)
(* JavaScript values are tagged records: k is the kind, and the payload is *)
(* under a field of its own per kind (b, n, s, a, o).  Property access,    *)
(* truthiness, string conversion, iteration and the exceptions they raise  *)
(* are modelled by what the language does.  Strings are TLA+ strings; Len  *)
(* is the JavaScript length (UTF-16 code units).                           *)
(***************************************************************************)
EXTENDS Integers, Sequences, FiniteSets, TLC

VARIABLES
    value,      \* the first argument of the call
    options,    \* the second argument of the call (Undefined when not passed)
    called,     \* "none" before the call, then the entry point that ran
    result,     \* the outcome of the call: a returned value or a thrown error
    ctx,        \* the ProcessContext as the call left it
    history,    \* the calls made so far, oldest first
    props,      \* the props RichTextDisplay is rendered with
    rendered,   \* what the render of RichTextDisplay gave
    plugin,     \* OnChangePlugin: its props, its refs, the editor it is bound to
    debounced   \* a function made by debounce: its closure, the timers, the clock

vars == <<value, options, called, result, ctx, history, props, rendered, plugin, debounced>>
exportVars == <<value, options, called, result, ctx, history>>
displayVars == <<props, rendered>>
outsideExport == <<displayVars, plugin, debounced>>
outsideDisplay == <<exportVars, plugin, debounced>>
outsidePlugin == <<exportVars, displayVars, debounced>>
outsideDebounce == <<exportVars, displayVars, plugin>>

-----------------------------------------------------------------------------
(* JavaScript values *)

Undefined == [k |-> "undefined"]
Null == [k |-> "null"]
Bool(b) == [k |-> "boolean", b |-> b]
Num(n) == [k |-> "number", n |-> n]
NaN == [k |-> "NaN"]
Str(s) == [k |-> "string", s |-> s]
Arr(a) == [k |-> "array", a |-> a]
Obj(o) == [k |-> "object", o |-> o]
EmptyObj == Obj([x \in {} |-> Undefined])

IsNullish(x) == x.k \in {"undefined", "null"}

\* !!x
Truthy(x) ==
    CASE x.k \in {"undefined", "null", "NaN"} -> FALSE
      [] x.k = "boolean" -> x.b
      [] x.k = "number" -> x.n # 0
      [] x.k = "string" -> x.s # ""
      [] OTHER -> TRUE

\* x[key] for a value that is not null or undefined (those throw a TypeError,
\* which every caller tests for with IsNullish before the access).
Get(x, key) ==
    CASE x.k = "object" -> IF key \in DOMAIN x.o THEN x.o[key] ELSE Undefined
      [] x.k = "array" -> IF key = "length" THEN Num(Len(x.a)) ELSE Undefined
      [] x.k = "string" -> IF key = "length" THEN Num(Len(x.s)) ELSE Undefined
      [] OTHER -> Undefined

\* key in x, for x an object or an array (a primitive right operand throws).
HasProp(x, key) ==
    CASE x.k = "object" -> key \in DOMAIN x.o
      [] x.k = "array" -> key = "length"
      [] OTHER -> FALSE

\* a || b
OrElse(a, b) == IF Truthy(a) THEN a ELSE b

-----------------------------------------------------------------------------
(* Strings *)

Max(a, b) == IF a >= b THEN a ELSE b
Min(a, b) == IF a <= b THEN a ELSE b

Digit(d) == SubSeq("0123456789", d + 1, d + 1)

RECURSIVE NatToString(_)
NatToString(n) ==
    IF n < 10 THEN Digit(n) ELSE NatToString(n \div 10) \o Digit(n % 10)

\* String(n) for an integer n
IntToString(n) == IF n < 0 THEN "-" \o NatToString(0 - n) ELSE NatToString(n)

RECURSIVE JoinStrings(_, _)
\* Array.prototype.join over an array of strings
JoinStrings(parts, sep) ==
    IF Len(parts) = 0 THEN ""
    ELSE IF Len(parts) = 1 THEN parts[1]
    ELSE parts[1] \o sep \o JoinStrings(Tail(parts), sep)

\* String(x), as string concatenation and template literals apply it
JsString(x) ==
    CASE x.k = "string" -> x.s
      [] x.k = "number" -> IntToString(x.n)
      [] x.k = "boolean" -> IF x.b THEN "true" ELSE "false"
      [] x.k = "array" -> IF Len(x.a) = 0 THEN "" ELSE "[array]"
      [] x.k = "object" -> "[object Object]"
      [] OTHER -> x.k

\* The text Array.prototype.join gives one element: null and undefined are
\* joined as the empty string.
JoinText(x) == IF IsNullish(x) THEN "" ELSE JsString(x)

RECURSIVE Repeat(_, _)
\* String.prototype.repeat for a count >= 0 (a negative count throws a
\* RangeError, which the callers test for).
Repeat(s, n) == IF n <= 0 THEN "" ELSE s \o Repeat(s, n - 1)

CharAt(s, i) == SubSeq(s, i, i)

\* White space as String.prototype.trim sees it, among the characters a
\* TLA+ string can hold.
WhiteSpace == {" ", "\n", "\t", "\r", "\f"}

RECURSIVE TrimStart(_)
TrimStart(s) ==
    IF Len(s) > 0 /\ CharAt(s, 1) \in WhiteSpace
    THEN TrimStart(SubSeq(s, 2, Len(s)))
    ELSE s

RECURSIVE TrimEnd(_)
TrimEnd(s) ==
    IF Len(s) > 0 /\ CharAt(s, Len(s)) \in WhiteSpace
    THEN TrimEnd(SubSeq(s, 1, Len(s) - 1))
    ELSE s

\* String.prototype.trim
Trim(s) == TrimEnd(TrimStart(s))

\* s.startsWith(p, i - 1), 1-based
StartsAt(s, p, i) == i + Len(p) - 1 <= Len(s) /\ SubSeq(s, i, i + Len(p) - 1) = p

RECURSIVE SplitFrom(_, _, _, _)
SplitFrom(s, sep, start, i) ==
    IF i > Len(s) THEN <<SubSeq(s, start, Len(s))>>
    ELSE IF StartsAt(s, sep, i)
    THEN <<SubSeq(s, start, i - 1)>> \o SplitFrom(s, sep, i + Len(sep), i + Len(sep))
    ELSE SplitFrom(s, sep, start, i + 1)

\* String.prototype.split with a string separator
Split(s, sep) ==
    IF sep = "" THEN [i \in 1..Len(s) |-> CharAt(s, i)]
    ELSE SplitFrom(s, sep, 1, 1)

\* String.prototype.slice(0, end)
Slice0(s, end) ==
    LET e == IF end < 0 THEN Max(Len(s) + end, 0) ELSE Min(end, Len(s))
    IN SubSeq(s, 1, e)

-----------------------------------------------------------------------------
(* JSON.parse.  The grammar is JSON's, with two limits that the inputs of   *)
(* the model respect: numbers are integers (no fraction, no exponent) and   *)
(* the escapes \b and \uXXXX do not occur.                                   *)

JsonWhiteSpace == {" ", "\n", "\t", "\r"}
JsonDigits == {Digit(d) : d \in 0..9}
DigitValue(c) == CHOOSE d \in 0..9 : Digit(d) = c

ParseFail == [ok |-> FALSE, v |-> Undefined, pos |-> 0]
ParseOk(v, pos) == [ok |-> TRUE, v |-> v, pos |-> pos]

RECURSIVE SkipWs(_, _)
SkipWs(s, i) ==
    IF i <= Len(s) /\ CharAt(s, i) \in JsonWhiteSpace THEN SkipWs(s, i + 1) ELSE i

RECURSIVE ParseStringBody(_, _, _)
\* the characters after an opening quote, up to the closing quote
ParseStringBody(s, i, acc) ==
    IF i > Len(s) THEN ParseFail
    ELSE LET c == CharAt(s, i) IN
         IF c = "\"" THEN ParseOk(Str(acc), i + 1)
         ELSE IF c \in {"\n", "\t", "\r", "\f"} THEN ParseFail
         ELSE IF c = "\\" THEN
            IF i + 1 > Len(s) THEN ParseFail
            ELSE LET e == CharAt(s, i + 1) IN
                 CASE e \in {"\"", "\\", "/"} -> ParseStringBody(s, i + 2, acc \o e)
                   [] e = "n" -> ParseStringBody(s, i + 2, acc \o "\n")
                   [] e = "t" -> ParseStringBody(s, i + 2, acc \o "\t")
                   [] e = "r" -> ParseStringBody(s, i + 2, acc \o "\r")
                   [] e = "f" -> ParseStringBody(s, i + 2, acc \o "\f")
                   [] OTHER -> ParseFail
         ELSE ParseStringBody(s, i + 1, acc \o c)

RECURSIVE ParseDigits(_, _, _)
ParseDigits(s, i, acc) ==
    IF i <= Len(s) /\ CharAt(s, i) \in JsonDigits
    THEN ParseDigits(s, i + 1, 10 * acc + DigitValue(CharAt(s, i)))
    ELSE ParseOk(Num(acc), i)

\* -? ( 0 | [1-9][0-9]* )
ParseNumber(s, i) ==
    LET neg == CharAt(s, i) = "-"
        j == IF neg THEN i + 1 ELSE i
        r == IF j > Len(s) \/ CharAt(s, j) \notin JsonDigits THEN ParseFail
             ELSE IF CharAt(s, j) = "0" THEN ParseOk(Num(0), j + 1)
             ELSE ParseDigits(s, j, 0)
    IN IF r.ok /\ neg THEN ParseOk(Num(0 - r.v.n), r.pos) ELSE r

RECURSIVE ParseValue(_, _)
RECURSIVE ParseElements(_, _, _)
RECURSIVE ParseMembers(_, _, _)

\* the elements of an array after "[" or ",", up to "]"
ParseElements(s, i, acc) ==
    LET r == ParseValue(s, i) IN
    IF ~r.ok THEN ParseFail
    ELSE LET j == SkipWs(s, r.pos) IN
         IF j > Len(s) THEN ParseFail
         ELSE IF CharAt(s, j) = "," THEN ParseElements(s, j + 1, Append(acc, r.v))
         ELSE IF CharAt(s, j) = "]" THEN ParseOk(Arr(Append(acc, r.v)), j + 1)
         ELSE ParseFail

\* the members of an object after "{" or ",", up to "}"; a repeated key keeps
\* its last value
ParseMembers(s, i, acc) ==
    LET j == SkipWs(s, i) IN
    IF j > Len(s) \/ CharAt(s, j) # "\"" THEN ParseFail
    ELSE LET key == ParseStringBody(s, j + 1, "") IN
         IF ~key.ok THEN ParseFail
         ELSE LET c == SkipWs(s, key.pos) IN
              IF c > Len(s) \/ CharAt(s, c) # ":" THEN ParseFail
              ELSE LET r == ParseValue(s, c + 1) IN
                   IF ~r.ok THEN ParseFail
                   ELSE LET e == SkipWs(s, r.pos)
                            next == (key.v.s :> r.v) @@ acc
                        IN IF e > Len(s) THEN ParseFail
                           ELSE IF CharAt(s, e) = "," THEN ParseMembers(s, e + 1, next)
                           ELSE IF CharAt(s, e) = "}" THEN ParseOk(Obj(next), e + 1)
                           ELSE ParseFail

ParseValue(s, i0) ==
    LET i == SkipWs(s, i0) IN
    IF i > Len(s) THEN ParseFail
    ELSE LET c == CharAt(s, i) IN
         CASE c = "n" -> IF StartsAt(s, "null", i) THEN ParseOk(Null, i + 4) ELSE ParseFail
           [] c = "t" -> IF StartsAt(s, "true", i) THEN ParseOk(Bool(TRUE), i + 4) ELSE ParseFail
           [] c = "f" -> IF StartsAt(s, "false", i) THEN ParseOk(Bool(FALSE), i + 5) ELSE ParseFail
           [] c = "\"" -> ParseStringBody(s, i + 1, "")
           [] c = "-" \/ c \in JsonDigits -> ParseNumber(s, i)
           [] c = "[" ->
                LET j == SkipWs(s, i + 1) IN
                IF j <= Len(s) /\ CharAt(s, j) = "]" THEN ParseOk(Arr(<<>>), j + 1)
                ELSE ParseElements(s, i + 1, <<>>)
           [] c = "{" ->
                LET j == SkipWs(s, i + 1) IN
                IF j <= Len(s) /\ CharAt(s, j) = "}" THEN ParseOk(EmptyObj, j + 1)
                ELSE ParseMembers(s, i + 1, [x \in {} |-> Undefined])
           [] OTHER -> ParseFail

\* JSON.parse(s): [ok |-> TRUE, v |-> the value], or ok = FALSE for the
\* SyntaxError it throws
JSONParse(s) ==
    LET r == ParseValue(s, 1) IN
    IF r.ok /\ SkipWs(s, r.pos) = Len(s) + 1 THEN r ELSE ParseFail

-----------------------------------------------------------------------------
(* Outcomes: a call returns a value and leaves a context, or throws. *)

Ret(v, c) == [thrown |-> FALSE, v |-> v, ctx |-> c]
Throw(e, c) == [thrown |-> TRUE, v |-> Str(e), ctx |-> c]

\* for (const x of v): the elements of an array, the characters of a string;
\* anything else is not iterable and throws a TypeError
IsIterable(x) == x.k \in {"array", "string"}
Elements(x) ==
    IF x.k = "array" THEN x.a ELSE [i \in 1..Len(x.s) |-> Str(CharAt(x.s, i))]

\* Array.prototype.join('') and join(sep) over values
JoinValues(parts, sep) ==
    JoinStrings([i \in 1..Len(parts) |-> JoinText(parts[i])], sep)

DEFAULT_OPTIONS ==
    [lineBreak |-> Str("\n"),
     indentSize |-> Num(2),
     includeUrls |-> Bool(TRUE),
     showCollapsibleIndicators |-> Bool(TRUE),
     horizontalRuleChar |-> Str("-"),
     horizontalRuleWidth |-> Num(40),
     tableMinColumnWidth |-> Num(3),
     tableMaxColumnWidth |-> Num(30),
     tableColumnSeparator |-> Str("|"),
     tableHeaderUnderline |-> Str("-")]

\* { ...DEFAULT_OPTIONS, ...options }: the own properties of options replace
\* the defaults; spreading undefined or null adds nothing
MergeOptions(opts) ==
    IF opts.k = "object" THEN opts.o @@ DEFAULT_OPTIONS ELSE DEFAULT_OPTIONS

\* the options of a context, as the code uses them
LineBreak(c) == JsString(c.options.lineBreak)
IndentSize(c) == c.options.indentSize.n

\* Characters a TLA+ string of this module cannot hold each stand as one
\* ASCII character that no input text, option or other literal of the model
\* contains: the backtick of the code fence (line 480), and the three UTF-16
\* code units U+00E2 U+20AC U+00A6 that the string literal of line 559 holds.
Backtick == "'"
U00E2 == "^"
U20AC == "$"
U00A6 == "~"
NonAsciiUnits == {U00E2, U20AC, U00A6}
TruncationSuffix == U00E2 \o U20AC \o U00A6

\* ' '.repeat(level * size), with the RangeError of a negative count
createIndent(level, size, c) ==
    IF level * size < 0 THEN Throw("RangeError", c)
    ELSE Ret(Str(Repeat(" ", level * size)), c)

\* node.indent || 0 as a number
IndentLevel(node) == OrElse(Get(node, "indent"), Num(0)).n

padString(str, width) ==
    IF Len(str) >= width THEN str ELSE str \o Repeat(" ", width - Len(str))

processTextNode(node) == Get(node, "text")

processCodeHighlight(node) == Get(node, "text")

processHashtag(node) == Get(node, "text")

processMention(node) ==
    Str("@" \o JsString(OrElse(Get(node, "mentionName"), Get(node, "text"))))

processHorizontalRule(c) ==
    IF c.options.horizontalRuleWidth.n < 0 THEN Throw("RangeError", c)
    ELSE Ret(Str(Repeat(JsString(c.options.horizontalRuleChar),
                        c.options.horizontalRuleWidth.n)), c)

\* r, or what F makes of it when r did not throw: the rest of a function
\* body after a call that may throw
Then(r, F(_)) == IF r.thrown THEN r ELSE F(r)

RECURSIVE processNode(_, _)
RECURSIVE processChildren(_, _)
RECURSIVE CollectResults(_, _, _, _)
RECURSIVE processListItems(_, _, _, _, _)
RECURSIVE processTableRows(_, _, _, _, _)
RECURSIVE processTableCells(_, _, _, _, _)
RECURSIVE processCollapsibleChildren(_, _, _, _, _)
RECURSIVE processLayoutItems(_, _, _, _)

\* the loop pushing every result, null included
CollectResults_KeepNull(items, i, parts, c) ==
    IF i > Len(items) THEN Ret(parts, c)
    ELSE Then(processNode(items[i], c),
              LAMBDA r : CollectResults(items, i + 1, Append(parts, r.v), r.ctx))

\* The loop shared by processChildren (lines 681-686) and the root case of
\* processNode (lines 700-705): the results that are not null, in order.
CollectResults(items, i, parts, c) ==
    IF i > Len(items) THEN Ret(parts, c)
    ELSE Then(processNode(items[i], c),
              LAMBDA r : CollectResults(items, i + 1,
                                        IF r.v # Null THEN Append(parts, r.v) ELSE parts,
                                        r.ctx))

processChildren(children, c) ==
    IF ~IsIterable(children) THEN Throw("TypeError", c)
    ELSE Then(CollectResults(Elements(children), 1, <<>>, c),
              LAMBDA r : Ret(Str(JoinValues(r.v, "")), r.ctx))

processParagraph(node, c) ==
    Then(createIndent(IndentLevel(node), IndentSize(c), c),
         LAMBDA indent :
            Then(processChildren(Get(node, "children"), c),
                 LAMBDA content : Ret(Str(indent.v.s \o content.v.s), content.ctx)))

\* the underline as long as the content trimmed
HeadingText_TrimmedUnderline(tag, content, lineBreak) ==
    CASE tag = Str("h1") -> content \o lineBreak \o Repeat("=", Len(Trim(content)))
      [] tag = Str("h2") -> content \o lineBreak \o Repeat("-", Len(Trim(content)))
      [] tag = Str("h3") -> "### " \o content
      [] tag = Str("h4") -> "#### " \o content
      [] tag = Str("h5") -> "##### " \o content
      [] tag = Str("h6") -> "###### " \o content
      [] OTHER -> content

\* the switch of processHeading, lines 369-384
HeadingText(tag, content, lineBreak) ==
    CASE tag = Str("h1") -> content \o lineBreak \o Repeat("=", Len(content))
      [] tag = Str("h2") -> content \o lineBreak \o Repeat("-", Len(content))
      [] tag = Str("h3") -> "### " \o content
      [] tag = Str("h4") -> "#### " \o content
      [] tag = Str("h5") -> "##### " \o content
      [] tag = Str("h6") -> "###### " \o content
      [] OTHER -> content

processHeading(node, c) ==
    Then(processChildren(Get(node, "children"), c),
         LAMBDA r : Ret(Str(HeadingText(Get(node, "tag"), r.v.s, LineBreak(c))), r.ctx))

\* content.split(lineBreak).map((line) => '> ' + line).join(lineBreak)
QuoteLines(lines, lineBreak) ==
    JoinStrings([i \in 1..Len(lines) |-> "> " \o lines[i]], lineBreak)

processQuote(node, c) ==
    Then(processChildren(Get(node, "children"), c),
         LAMBDA r : Ret(Str(QuoteLines(Split(r.v.s, LineBreak(c)), LineBreak(c))), r.ctx))

\* ctx.listCounters[ctx.listCounters.length - 1]++ : the value read.  On an
\* empty stack the read is undefined and the value is NaN.
CounterRead(stack) ==
    IF Len(stack) > 0 /\ stack[Len(stack)].k = "number" THEN stack[Len(stack)] ELSE NaN

\* ... and the stack after the increment.  On an empty stack the write sets
\* the property "-1", which is no element of the array.
CounterIncremented(stack) ==
    IF Len(stack) = 0 THEN stack
    ELSE IF stack[Len(stack)].k = "number"
    THEN [stack EXCEPT ![Len(stack)] = Num(stack[Len(stack)].n + 1)]
    ELSE [stack EXCEPT ![Len(stack)] = NaN]

\* the switch without a default prefix
ItemPrefix_NoDefault(listType, node, stack) ==
    CASE listType = Str("bullet") -> "- "
      [] listType = Str("number") -> JsString(CounterRead(stack)) \o ". "
      [] listType = Str("check") ->
            IF Truthy(Get(node, "checked")) THEN "[x] " ELSE "[ ] "
      [] OTHER -> ""

\* the switch of processListItem, lines 437-451
ItemPrefix(listType, node, stack) ==
    CASE listType = Str("bullet") -> "- "
      [] listType = Str("number") -> JsString(CounterRead(stack)) \o ". "
      [] listType = Str("check") ->
            IF Truthy(Get(node, "checked")) THEN "[x] " ELSE "[ ] "
      [] OTHER -> "- "

processListItem(node, parent, c) ==
    Then(createIndent(IndentLevel(node), IndentSize(c), c),
         LAMBDA indent :
            Then(processChildren(Get(node, "children"), c),
                 LAMBDA content :
                    Ret(Str(indent.v.s
                            \o ItemPrefix(Get(parent, "listType"), node,
                                          content.ctx.listCounters)
                            \o content.v.s),
                        IF Get(parent, "listType") = Str("number")
                        THEN [content.ctx EXCEPT
                                !.listCounters = CounterIncremented(@)]
                        ELSE content.ctx)))

\* the loop of processList, lines 411-415
processListItems(children, i, items, node, c) ==
    IF i > Len(children) THEN Ret(items, c)
    ELSE IF IsNullish(children[i]) THEN Throw("TypeError", c)
    ELSE IF Get(children[i], "type") = Str("listitem")
    THEN Then(processListItem(children[i], node, c),
              LAMBDA r : processListItems(children, i + 1, Append(items, r.v.s),
                                          node, r.ctx))
    ELSE processListItems(children, i + 1, items, node, c)

\* lines 404-409: the context after the push of a numbered list
PushListCounter(node, c) ==
    IF Get(node, "listType") = Str("number")
    THEN [c EXCEPT !.listCounters = Append(@, OrElse(Get(node, "start"), Num(1)))]
    ELSE c

\* the list leaving its counter on the stack
PopListCounter_Never(node, c) == c

\* lines 418-420: the context after the pop of a numbered list
PopListCounter(node, c) ==
    IF Get(node, "listType") = Str("number")
    THEN [c EXCEPT !.listCounters = SubSeq(@, 1, Len(@) - 1)]
    ELSE c

processList(node, c) ==
    IF ~IsIterable(Get(node, "children")) THEN Throw("TypeError", PushListCounter(node, c))
    ELSE Then(processListItems(Elements(Get(node, "children")), 1, <<>>, node,
                               PushListCounter(node, c)),
              LAMBDA r : Ret(Str(JoinStrings(r.v, LineBreak(c))),
                             PopListCounter(node, r.ctx)))

\* the test of line 462 without the comparison of url and text
LinkText_NoComparison(text, url, includeUrls) ==
    IF Truthy(includeUrls) /\ Truthy(url)
    THEN text \o " (" \o JsString(url) \o ")"
    ELSE text

\* lines 462-466
LinkText(text, url, includeUrls) ==
    IF Truthy(includeUrls) /\ Truthy(url) /\ url # Str(text)
    THEN text \o " (" \o JsString(url) \o ")"
    ELSE text

processLink(node, c) ==
    Then(processChildren(Get(node, "children"), c),
         LAMBDA r : Ret(Str(LinkText(r.v.s, Get(node, "url"), c.options.includeUrls)),
                        r.ctx))

\* lines 480-483
CodeFence(language, content, lineBreak) ==
    Backtick \o Backtick \o Backtick \o JsString(OrElse(language, Str("")))
    \o lineBreak \o content \o lineBreak \o Backtick \o Backtick \o Backtick

processCode(node, c) ==
    Then(processChildren(Get(node, "children"), [c EXCEPT !.inCodeBlock = TRUE]),
         LAMBDA r : Ret(Str(CodeFence(Get(node, "language"), r.v.s, LineBreak(c))),
                        [r.ctx EXCEPT !.inCodeBlock = c.inCodeBlock]))

\* (x ?? 0) > 0
IsHeaderState(x) ==
    CASE x.k = "number" -> x.n > 0
      [] x.k = "boolean" -> x.b
      [] OTHER -> FALSE

\* the loop over the cells of one row, lines 509-520
processTableCells(cellNodes, i, cells, isHeaderRow, c) ==
    IF i > Len(cellNodes) THEN Ret([cells |-> cells, isHeaderRow |-> isHeaderRow], c)
    ELSE IF IsNullish(cellNodes[i]) THEN Throw("TypeError", c)
    ELSE IF Get(cellNodes[i], "type") # Str("tablecell")
    THEN processTableCells(cellNodes, i + 1, cells, isHeaderRow, c)
    ELSE Then(processChildren(Get(cellNodes[i], "children"), c),
              LAMBDA r :
                 processTableCells(cellNodes, i + 1, Append(cells, Trim(r.v.s)),
                                   isHeaderRow
                                     \/ IsHeaderState(Get(cellNodes[i], "headerState")),
                                   r.ctx))

\* the first pass taking the index among node.children for the header row's
processTableRows_ChildIndex(rowNodes, rowIdx, rows, headerRowIndex, c) ==
    IF rowIdx > Len(rowNodes)
    THEN Ret([rows |-> rows, headerRowIndex |-> headerRowIndex], c)
    ELSE IF IsNullish(rowNodes[rowIdx]) THEN Throw("TypeError", c)
    ELSE IF Get(rowNodes[rowIdx], "type") # Str("tablerow")
    THEN processTableRows(rowNodes, rowIdx + 1, rows, headerRowIndex, c)
    ELSE IF ~IsIterable(Get(rowNodes[rowIdx], "children")) THEN Throw("TypeError", c)
    ELSE Then(processTableCells(Elements(Get(rowNodes[rowIdx], "children")),
                                1, <<>>, FALSE, c),
              LAMBDA r :
                 processTableRows(rowNodes, rowIdx + 1, Append(rows, r.v.cells),
                                  IF r.v.isHeaderRow /\ headerRowIndex = -1
                                  THEN rowIdx - 1 ELSE headerRowIndex,
                                  r.ctx))

\* the first pass of processTable, lines 501-527
processTableRows(rowNodes, rowIdx, rows, headerRowIndex, c) ==
    IF rowIdx > Len(rowNodes)
    THEN Ret([rows |-> rows, headerRowIndex |-> headerRowIndex], c)
    ELSE IF IsNullish(rowNodes[rowIdx]) THEN Throw("TypeError", c)
    ELSE IF Get(rowNodes[rowIdx], "type") # Str("tablerow")
    THEN processTableRows(rowNodes, rowIdx + 1, rows, headerRowIndex, c)
    ELSE IF ~IsIterable(Get(rowNodes[rowIdx], "children")) THEN Throw("TypeError", c)
    ELSE Then(processTableCells(Elements(Get(rowNodes[rowIdx], "children")),
                                1, <<>>, FALSE, c),
              LAMBDA r :
                 processTableRows(rowNodes, rowIdx + 1, Append(rows, r.v.cells),
                                  IF r.v.isHeaderRow /\ headerRowIndex = -1
                                  THEN Len(rows) ELSE headerRowIndex,
                                  r.ctx))

\* row[col] || '' (col counted from 1)
CellOf(row, col) == IF col <= Len(row) THEN row[col] ELSE ""

RECURSIVE MaxRowLength(_)
\* Math.max(...rows.map((r) => r.length)) for rows that are not empty
MaxRowLength(rows) ==
    IF Len(rows) = 1 THEN Len(rows[1])
    ELSE Max(Len(rows[1]), MaxRowLength(Tail(rows)))

RECURSIVE ColumnWidth(_, _, _, _, _)
\* the loop of lines 538-541 from row i on, maxWidth being the width so far
ColumnWidth(rows, col, i, maxWidth, maxColumnWidth) ==
    IF i > Len(rows) THEN maxWidth
    ELSE ColumnWidth(rows, col, i + 1,
                     Max(maxWidth, Min(Len(CellOf(rows[i], col)), maxColumnWidth)),
                     maxColumnWidth)

\* lines 532-544
ColumnWidths(rows, opts) ==
    [col \in 1..MaxRowLength(rows) |->
        ColumnWidth(rows, col, 1, opts.tableMinColumnWidth.n, opts.tableMaxColumnWidth.n)]

\* one cell of the second pass, lines 555-561
RenderCell(content, width) ==
    padString(IF Len(content) > width
              THEN Slice0(content, width - 1) \o TruncationSuffix
              ELSE content,
              width)

\* the line of a row made of the cells the row has
RowLine_OwnCells(row, widths, sep) ==
    JoinStrings([col \in 1..Min(Len(row), Len(widths)) |-> RenderCell(row[col], widths[col])],
                sep)

\* lines 552-564
RowLine(row, widths, sep) ==
    JoinStrings([col \in 1..Len(widths) |-> RenderCell(CellOf(row, col), widths[col])], sep)

\* lines 568-571
SeparatorLine(widths, underline, sep) ==
    JoinStrings([col \in 1..Len(widths) |-> Repeat(underline, widths[col])], sep)

RECURSIVE TableLines(_, _, _, _, _, _)
\* the second pass of processTable, lines 550-573, from row rowIdx on (rowIdx
\* counts from 0 as in the code)
TableLines(rows, rowIdx, headerRowIndex, widths, underline, sep) ==
    IF rowIdx >= Len(rows) THEN <<>>
    ELSE <<RowLine(rows[rowIdx + 1], widths, sep)>>
         \o (IF rowIdx = headerRowIndex
             THEN <<SeparatorLine(widths, underline, sep)>> ELSE <<>>)
         \o TableLines(rows, rowIdx + 1, headerRowIndex, widths, underline, sep)

\* lines 529-575: the table of the rows collected; repeat throws a RangeError
\* on a negative width
RenderTable(rows, headerRowIndex, c) ==
    IF Len(rows) = 0 THEN Ret(Str(""), c)
    ELSE IF headerRowIndex >= 0
            /\ \E col \in 1..MaxRowLength(rows) : ColumnWidths(rows, c.options)[col] < 0
    THEN Throw("RangeError", c)
    ELSE Ret(Str(JoinStrings(
                   TableLines(rows, 0, headerRowIndex, ColumnWidths(rows, c.options),
                              JsString(c.options.tableHeaderUnderline),
                              " " \o JsString(c.options.tableColumnSeparator) \o " "),
                   LineBreak(c))),
             c)

\* node.children.length and node.children[rowIdx] of lines 501-502
TableRowNodes(children) == IF IsIterable(children) THEN Elements(children) ELSE <<>>

processTable(node, c) ==
    IF IsNullish(Get(node, "children")) THEN Throw("TypeError", c)
    ELSE Then(processTableRows(TableRowNodes(Get(node, "children")), 1, <<>>, -1, c),
              LAMBDA r : RenderTable(r.v.rows, r.v.headerRowIndex, r.ctx))

\* the loop of processCollapsible, lines 595-607
processCollapsibleChildren(children, i, title, content, c) ==
    IF i > Len(children) THEN Ret([title |-> title, content |-> content], c)
    ELSE IF IsNullish(children[i]) THEN Throw("TypeError", c)
    ELSE IF Get(children[i], "type") = Str("collapsible-title")
    THEN Then(processChildren(Get(children[i], "children"), c),
              LAMBDA r : processCollapsibleChildren(children, i + 1, r.v.s, content, r.ctx))
    ELSE IF Get(children[i], "type") = Str("collapsible-content")
    THEN Then(processChildren(Get(children[i], "children"), c),
              LAMBDA r : processCollapsibleChildren(children, i + 1, title, r.v.s, r.ctx))
    ELSE processCollapsibleChildren(children, i + 1, title, content, c)

\* the indicator chosen by the truthiness of open
RenderCollapsible_OpenTruthy(node, title, content, c) ==
    IF Truthy(c.options.showCollapsibleIndicators)
    THEN Then(createIndent(1, IndentSize(c), c),
              LAMBDA indent :
                 Ret(Str((IF Truthy(Get(node, "open")) THEN "[-]" ELSE "[+]")
                         \o " " \o title \o LineBreak(c) \o indent.v.s
                         \o JoinStrings(Split(content, LineBreak(c)),
                                        LineBreak(c) \o indent.v.s)),
                     c))
    ELSE Ret(Str(title \o LineBreak(c) \o content), c)

\* lines 609-623
RenderCollapsible(node, title, content, c) ==
    IF Truthy(c.options.showCollapsibleIndicators)
    THEN Then(createIndent(1, IndentSize(c), c),
              LAMBDA indent :
                 Ret(Str((IF Get(node, "open") # Bool(FALSE) THEN "[-]" ELSE "[+]")
                         \o " " \o title \o LineBreak(c) \o indent.v.s
                         \o JoinStrings(Split(content, LineBreak(c)),
                                        LineBreak(c) \o indent.v.s)),
                     c))
    ELSE Ret(Str(title \o LineBreak(c) \o content), c)

processCollapsible(node, c) ==
    IF ~IsIterable(Get(node, "children")) THEN Throw("TypeError", c)
    ELSE Then(processCollapsibleChildren(Elements(Get(node, "children")), 1, "", "", c),
              LAMBDA r : RenderCollapsible(node, r.v.title, r.v.content, r.ctx))

\* the loop of processLayout, lines 636-646
processLayoutItems(children, i, items, c) ==
    IF i > Len(children) THEN Ret(items, c)
    ELSE IF IsNullish(children[i]) THEN Throw("TypeError", c)
    ELSE IF Get(children[i], "type") = Str("layout-item")
    THEN Then(processChildren(Get(children[i], "children"), c),
              LAMBDA r :
                 processLayoutItems(children, i + 1,
                                    IF Trim(r.v.s) # "" THEN Append(items, r.v.s) ELSE items,
                                    r.ctx))
    ELSE processLayoutItems(children, i + 1, items, c)

processLayout(node, c) ==
    IF ~IsIterable(Get(node, "children")) THEN Throw("TypeError", c)
    ELSE Then(processLayoutItems(Elements(Get(node, "children")), 1, <<>>, c),
              LAMBDA r : Ret(Str(JoinStrings(r.v, LineBreak(c) \o LineBreak(c) \o "---"
                                                   \o LineBreak(c) \o LineBreak(c))),
                             r.ctx))

\* the default case without the Array.isArray test
processUnknown_Unguarded(node, c) ==
    IF node.k \notin {"object", "array"} THEN Throw("TypeError", c)
    ELSE processChildren(Get(node, "children"), c)

\* the default case of processNode, lines 780-787; the in operator throws a
\* TypeError when its right operand is a primitive
processUnknown(node, c) ==
    IF node.k \notin {"object", "array"} THEN Throw("TypeError", c)
    ELSE IF HasProp(node, "children") /\ Get(node, "children").k = "array"
    THEN processChildren(Get(node, "children"), c)
    ELSE Ret(Null, c)

\* the root case joining the blocks with one line break
processRoot_SingleBreak(node, c) ==
    IF ~IsIterable(Get(node, "children")) THEN Throw("TypeError", c)
    ELSE Then(CollectResults(Elements(Get(node, "children")), 1, <<>>, c),
              LAMBDA r : Ret(Str(JoinValues(r.v, LineBreak(c))), r.ctx))

\* the root case of processNode, lines 696-708
processRoot(node, c) ==
    IF ~IsIterable(Get(node, "children")) THEN Throw("TypeError", c)
    ELSE Then(CollectResults(Elements(Get(node, "children")), 1, <<>>, c),
              LAMBDA r : Ret(Str(JoinValues(r.v, LineBreak(c) \o LineBreak(c))), r.ctx))

\* the switch without the cases of the types a structural parent handles,
\* which then take the default case
Dispatch_StrayToDefault(type, node, c) ==
    CASE type = Str("root") -> processRoot(node, c)
      [] type = Str("text") -> Ret(processTextNode(node), c)
      [] type = Str("paragraph") -> processParagraph(node, c)
      [] type = Str("heading") -> processHeading(node, c)
      [] type = Str("quote") -> processQuote(node, c)
      [] type = Str("list") -> processList(node, c)
      [] type \in {Str("link"), Str("autolink")} -> processLink(node, c)
      [] type = Str("code") -> processCode(node, c)
      [] type = Str("code-highlight") -> Ret(processCodeHighlight(node), c)
      [] type = Str("table") -> processTable(node, c)
      [] type = Str("horizontalrule") -> processHorizontalRule(c)
      [] type = Str("collapsible-container") -> processCollapsible(node, c)
      [] type = Str("layout-container") -> processLayout(node, c)
      [] type = Str("mention") -> Ret(processMention(node), c)
      [] type = Str("hashtag") -> Ret(processHashtag(node), c)
      [] type = Str("linebreak") -> Ret(c.options.lineBreak, c)
      [] type = Str("tab") -> Ret(Str("\t"), c)
      [] OTHER -> processUnknown(node, c)

\* the switch of processNode on a node that is not null or undefined
Dispatch(type, node, c) ==
    CASE type = Str("root") -> processRoot(node, c)
      [] type = Str("text") -> Ret(processTextNode(node), c)
      [] type = Str("paragraph") -> processParagraph(node, c)
      [] type = Str("heading") -> processHeading(node, c)
      [] type = Str("quote") -> processQuote(node, c)
      [] type = Str("list") -> processList(node, c)
      [] type = Str("listitem") -> Ret(Null, c)
      [] type \in {Str("link"), Str("autolink")} -> processLink(node, c)
      [] type = Str("code") -> processCode(node, c)
      [] type = Str("code-highlight") -> Ret(processCodeHighlight(node), c)
      [] type = Str("table") -> processTable(node, c)
      [] type \in {Str("tablerow"), Str("tablecell")} -> Ret(Null, c)
      [] type = Str("horizontalrule") -> processHorizontalRule(c)
      [] type = Str("collapsible-container") -> processCollapsible(node, c)
      [] type \in {Str("collapsible-title"), Str("collapsible-content")} -> Ret(Null, c)
      [] type = Str("layout-container") -> processLayout(node, c)
      [] type = Str("layout-item") -> Ret(Null, c)
      [] type = Str("mention") -> Ret(processMention(node), c)
      [] type = Str("hashtag") -> Ret(processHashtag(node), c)
      [] type = Str("linebreak") -> Ret(c.options.lineBreak, c)
      [] type = Str("tab") -> Ret(Str("\t"), c)
      [] OTHER -> processUnknown(node, c)

processNode(node, c) ==
    IF IsNullish(node) THEN Throw("TypeError", c) ELSE Dispatch(Get(node, "type"), node, c)

-----------------------------------------------------------------------------
(* The public API *)

\* the value of ctx when a call made no ProcessContext
NoContext == [options |-> DEFAULT_OPTIONS, indent |-> 0, listCounters |-> <<>>,
              inCodeBlock |-> FALSE, created |-> FALSE]

\* a context whose counter stack and code-block flag are those the last call
\* left
NewContext_KeptCounters(opts) ==
    [options |-> MergeOptions(opts), indent |-> 0,
     listCounters |-> ctx.listCounters, inCodeBlock |-> ctx.inCodeBlock,
     created |-> TRUE]

\* lines 849-854: the context a call creates
NewContext(opts) == [options |-> MergeOptions(opts), indent |-> 0,
                     listCounters |-> <<>>, inCodeBlock |-> FALSE, created |-> TRUE]

\* lines 823-835: the value parsed when it is a string; ok = FALSE when
\* JSON.parse throws
ParsedInput(val) == IF val.k = "string" THEN JSONParse(val.s) ELSE ParseOk(val, 0)

\* lines 837-859, on the editor state parsed or given
generateFromState(editorState, opts) ==
    IF IsNullish(editorState) THEN Throw("TypeError", NoContext)
    ELSE IF ~Truthy(Get(editorState, "root"))
            \/ Get(Get(editorState, "root"), "type") # Str("root")
    THEN Ret(Str(""), NoContext)
    ELSE Then(processNode(Get(editorState, "root"), NewContext(opts)),
              LAMBDA r : Ret(OrElse(r.v, Str("")), r.ctx))

\* the catch of line 833 returning the value trimmed
generatePlainText_TrimmedFallback(val, opts) ==
    IF ~Truthy(val) THEN Ret(Str(""), NoContext)
    ELSE IF ~ParsedInput(val).ok THEN Ret(Str(Trim(val.s)), NoContext)
    ELSE generateFromState(ParsedInput(val).v, opts)

generatePlainText(val, opts) ==
    IF ~Truthy(val) THEN Ret(Str(""), NoContext)
    ELSE IF ~ParsedInput(val).ok THEN Ret(val, NoContext)
    ELSE generateFromState(ParsedInput(val).v, opts)

RECURSIVE extractFromNode(_)
RECURSIVE extractFromNodes(_, _, _)

\* elementNode.children.map(extractFromNode), from element i on
extractFromNodes(children, i, texts) ==
    IF i > Len(children) THEN Ret(texts, NoContext)
    ELSE Then(extractFromNode(children[i]),
              LAMBDA r : extractFromNodes(children, i + 1, Append(texts, r.v)))

\* the element without 'listitem' among the types a line break follows
extractFromElement_NoListItemBreak(type, node) ==
    IF node.k \notin {"object", "array"} THEN Throw("TypeError", NoContext)
    ELSE IF HasProp(node, "children") /\ Get(node, "children").k = "array"
    THEN Then(extractFromNodes(Get(node, "children").a, 1, <<>>),
              LAMBDA r :
                 IF type \in {Str("paragraph"), Str("heading"), Str("quote"), Str("code")}
                 THEN Ret(Str(JoinValues(r.v, "") \o "\n"), NoContext)
                 ELSE Ret(Str(JoinValues(r.v, "")), NoContext))
    ELSE Ret(Str(""), NoContext)

\* lines 927-937: the node as an element
extractFromElement(type, node) ==
    IF node.k \notin {"object", "array"} THEN Throw("TypeError", NoContext)
    ELSE IF HasProp(node, "children") /\ Get(node, "children").k = "array"
    THEN Then(extractFromNodes(Get(node, "children").a, 1, <<>>),
              LAMBDA r :
                 IF type \in {Str("paragraph"), Str("heading"), Str("quote"),
                              Str("listitem"), Str("code")}
                 THEN Ret(Str(JoinValues(r.v, "") \o "\n"), NoContext)
                 ELSE Ret(Str(JoinValues(r.v, "")), NoContext))
    ELSE Ret(Str(""), NoContext)

\* lines 902-925 on a node that is not null or undefined
extractByType(type, node) ==
    CASE type = Str("text") -> Ret(Get(node, "text"), NoContext)
      [] type = Str("code-highlight") -> Ret(Get(node, "text"), NoContext)
      [] type = Str("mention") ->
            Ret(Str("@" \o JsString(OrElse(Get(node, "mentionName"), Get(node, "text")))),
                NoContext)
      [] type = Str("hashtag") -> Ret(Get(node, "text"), NoContext)
      [] type = Str("linebreak") -> Ret(Str("\n"), NoContext)
      [] type = Str("tab") -> Ret(Str("\t"), NoContext)
      [] OTHER -> extractFromElement(type, node)

extractFromNode(node) ==
    IF IsNullish(node) THEN Throw("TypeError", NoContext)
    ELSE extractByType(Get(node, "type"), node)

\* the extraction with the validation of generatePlainText
extractFromState_Strict(editorState) ==
    IF IsNullish(editorState) THEN Throw("TypeError", NoContext)
    ELSE IF ~Truthy(Get(editorState, "root"))
            \/ Get(Get(editorState, "root"), "type") # Str("root")
    THEN Ret(Str(""), NoContext)
    ELSE Then(extractFromNode(Get(editorState, "root")),
              LAMBDA r : IF r.v.k # "string" THEN Throw("TypeError", NoContext)
                         ELSE Ret(Str(Trim(r.v.s)), NoContext))

\* lines 899-940, on the editor state parsed or given; .trim() of a value
\* that is no string is a TypeError
extractFromState(editorState) ==
    IF IsNullish(editorState) THEN Throw("TypeError", NoContext)
    ELSE IF ~Truthy(Get(editorState, "root")) THEN Ret(Str(""), NoContext)
    ELSE Then(extractFromNode(Get(editorState, "root")),
              LAMBDA r : IF r.v.k # "string" THEN Throw("TypeError", NoContext)
                         ELSE Ret(Str(Trim(r.v.s)), NoContext))

extractTextContent(val) ==
    IF ~Truthy(val) THEN Ret(Str(""), NoContext)
    ELSE IF ~ParsedInput(val).ok THEN Ret(val, NoContext)
    ELSE extractFromState(ParsedInput(val).v)

\* typeof x === 'object'
IsTypeofObject(x) == x.k \in {"null", "object", "array"}

\* the type guard without the test of root.children
isSerializedEditorState_TypeOnly(val) ==
    IF ~Truthy(val) \/ ~IsTypeofObject(val) THEN Ret(Bool(FALSE), NoContext)
    ELSE IF ~Truthy(Get(val, "root")) \/ ~IsTypeofObject(Get(val, "root"))
    THEN Ret(Bool(FALSE), NoContext)
    ELSE Ret(Bool(Get(Get(val, "root"), "type") = Str("root")), NoContext)

isSerializedEditorState(val) ==
    IF ~Truthy(val) \/ ~IsTypeofObject(val) THEN Ret(Bool(FALSE), NoContext)
    ELSE IF ~Truthy(Get(val, "root")) \/ ~IsTypeofObject(Get(val, "root"))
    THEN Ret(Bool(FALSE), NoContext)
    ELSE Ret(Bool(/\ Get(Get(val, "root"), "type") = Str("root")
                  /\ Get(Get(val, "root"), "children").k = "array"),
             NoContext)

-----------------------------------------------------------------------------
(* The calls the model makes: serialized nodes, documents and options *)

MaxInline == 2      \* inline children of a block
MaxItems == 3       \* children of a list
MaxRows == 2        \* children of a table
MaxParts == 2       \* children of a collapsible container
MaxBlocks == 2      \* children of the root

SeqsUpTo(S, n) == UNION {[1..k -> S] : k \in 0..n}

Leaf(type) == Obj([type |-> Str(type), version |-> Num(1)])
Text(s) == Obj([type |-> Str("text"), text |-> Str(s), format |-> Num(0), version |-> Num(1)])
TextLike(type, s) == Obj([type |-> Str(type), text |-> Str(s), version |-> Num(1)])
Elem(type, children) ==
    Obj([type |-> Str(type), children |-> Arr(children), version |-> Num(1)])
With(node, key, val) == Obj((key :> val) @@ node.o)
Doc(children) == Obj([root |-> Elem("root", children)])
OneOrAbsent(node, key, vals) == {node} \cup {With(node, key, x) : x \in vals}

Mention(name, s) == With(TextLike("mention", s), "mentionName", Str(name))
Link(type, url, children) == With(Elem(type, children), "url", Str(url))
Para(children) == Elem("paragraph", children)
ListItem(children) == Elem("listitem", children)
List(listType, children) == With(Elem("list", children), "listType", Str(listType))
Cell(s, headerState) ==
    With(Elem("tablecell", <<Para(<<Text(s)>>)>>), "headerState", Num(headerState))

InlineNodes ==
    {Text("Hi"), Text(" b"), Leaf("linebreak"), Leaf("tab"), Mention("al", "@al"),
     Elem("future-unknown-block", <<Text("x"), TextLike("hashtag", "#y")>>),
     Leaf("future-unknown-leaf")}
InlineSeqs == SeqsUpTo(InlineNodes, MaxInline)

HeadingTags == {"h1", "h2", "h3", "h4", "h5", "h6"}
HeadingNodes ==
    UNION {OneOrAbsent(Elem("heading", kids), "tag", {Str(tag) : tag \in HeadingTags})
             : kids \in InlineSeqs}

LinkTexts == SeqsUpTo({Text("Hi"), Text("u"), Leaf("linebreak")}, MaxInline)
LinkNodes ==
    UNION {OneOrAbsent(Elem(type, kids), "url", {Str(""), Str("u"), Str("Hi"), Str("https://x.com")})
             : type \in {"link", "autolink"}, kids \in LinkTexts}
          \cup {Link("link", "https://x.com", <<Text("click here")>>)}

NestedList == With(List("number", <<ListItem(<<Text("x")>>), ListItem(<<Text("y")>>)>>),
                   "start", Num(7))
ListChildren ==
    {ListItem(<<Text("a")>>),
     With(ListItem(<<Text("b")>>), "checked", Bool(TRUE)),
     With(ListItem(<<Text("c")>>), "indent", Num(1)),
     ListItem(<<Text("d"), NestedList>>),
     Para(<<Text("p")>>)}
ListStarts == {Num(-2), Num(0), Num(1), Num(5)}
ListNodes ==
    UNION {OneOrAbsent(List("number", kids), "start", ListStarts)
           \cup OneOrAbsent(Elem("list", kids), "listType",
                            {Str("bullet"), Str("check"), Str("other")})
             : kids \in SeqsUpTo(ListChildren, MaxItems)}

TableChildren ==
    {Elem("tablerow", <<Cell("Name", 1), Cell("Age", 0)>>),
     Elem("tablerow", <<Cell(" abcdefg ", 0)>>),
     Elem("tablerow", <<Cell("", 0), Cell("xy", 0), Cell("abcde", 2)>>),
     Elem("tablerow", <<>>),
     Para(<<Text("p")>>)}
TableNodes == {Elem("table", kids) : kids \in SeqsUpTo(TableChildren, MaxRows)}
TableOptions ==
    {Undefined,
     Obj([tableMaxColumnWidth |-> Num(4)]),
     Obj([tableMinColumnWidth |-> Num(0), tableMaxColumnWidth |-> Num(0)]),
     Obj([tableMinColumnWidth |-> Num(1), tableMaxColumnWidth |-> Num(1),
          tableColumnSeparator |-> Str("!"), tableHeaderUnderline |-> Str("=")]),
     Obj([tableMinColumnWidth |-> Num(6), tableMaxColumnWidth |-> Num(6)])}

CollapsibleChildren ==
    {Elem("collapsible-title", <<Text("Details")>>),
     Elem("collapsible-title", <<Para(<<Text("T"), Leaf("linebreak"), Text("U")>>)>>),
     Elem("collapsible-content", <<Para(<<Text("Body")>>)>>),
     Elem("collapsible-content", <<Para(<<Text("a"), Leaf("linebreak"), Leaf("linebreak"), Text("b")>>)>>),
     Elem("collapsible-content", <<>>),
     Para(<<Text("p")>>)}
CollapsibleNodes ==
    UNION {OneOrAbsent(Elem("collapsible-container", kids), "open",
                       {Bool(TRUE), Bool(FALSE)})
             : kids \in SeqsUpTo(CollapsibleChildren, MaxParts)}
CollapsibleOptions ==
    {Undefined,
     Obj([showCollapsibleIndicators |-> Bool(FALSE)]),
     Obj([indentSize |-> Num(4)]),
     Obj([indentSize |-> Num(0)]),
     Obj([lineBreak |-> Str("\r\n")])}

Blocks ==
    {Para(<<Text("a")>>),
     With(Para(<<Text("b")>>), "indent", Num(2)),
     With(Elem("heading", <<Text("Hi")>>), "tag", Str("h1")),
     Elem("quote", <<Text("q"), Leaf("linebreak"), Text("r")>>),
     With(Elem("code", <<TextLike("code-highlight", "x=1")>>), "language", Str("js")),
     Leaf("horizontalrule"),
     Elem("future-unknown-block", <<Text("x"), Text("y")>>),
     Elem("future-unknown-block", <<>>),
     Leaf("future-unknown-leaf"),
     ListItem(<<Text("s")>>),
     Elem("layout-container",
          <<Elem("layout-item", <<Para(<<Text(" l ")>>)>>),
            Elem("layout-item", <<Para(<<Text(" ")>>)>>),
            Elem("layout-item", <<Para(<<Text("m")>>)>>)>>),
     List("bullet", <<ListItem(<<Text("i")>>)>>),
     Elem("table", <<Elem("tablerow", <<Cell("c", 1)>>)>>)}

LayoutChildren ==
    {Elem("layout-item", <<Para(<<Text(" l ")>>)>>),
     Elem("layout-item", <<Para(<<Text(" ")>>)>>),
     Elem("layout-item", <<Para(<<Text("m")>>), Para(<<Text("n")>>)>>),
     Para(<<Text("p")>>)}
LayoutNodes == {Elem("layout-container", kids) : kids \in SeqsUpTo(LayoutChildren, MaxParts)}

\* nodes of the types their structural parent handles, met elsewhere
StrayTypes ==
    {"listitem", "tablerow", "tablecell", "collapsible-title", "collapsible-content",
     "layout-item"}
StrayNodes == {Elem(type, <<Text("s")>>) : type \in StrayTypes}

\* nodes that lack a field their type is expected to carry
ElementTypes ==
    {"paragraph", "heading", "quote", "list", "link", "autolink", "code", "table",
     "collapsible-container", "layout-container"}
TextTypes == {"text", "code-highlight", "mention", "hashtag"}
MalformedNodes ==
    {Leaf(type) : type \in ElementTypes \cup TextTypes}
    \cup {Para(<<Leaf(type)>>) : type \in ElementTypes \cup TextTypes}
    \cup {Obj([type |-> Str("paragraph"), children |-> Null]),
          With(Para(<<Text("a")>>), "indent", Num(-1)),
          Elem("table", <<Leaf("tablerow")>>),
          Elem("table", <<Elem("tablerow", <<Leaf("tablecell")>>)>>),
          Elem("collapsible-container", <<Leaf("collapsible-title")>>),
          Elem("layout-container", <<Leaf("layout-item")>>),
          List("bullet", <<Leaf("listitem")>>)}

LineBreakOptions == {Undefined, Obj([lineBreak |-> Str("\r\n")])}
\* options objects as callers may pass them: none, empty, some options, all
\* options, and an option whose value is undefined
ResolutionOptions ==
    {Undefined, Null, EmptyObj,
     Obj([indentSize |-> Num(4)]),
     Obj([horizontalRuleChar |-> Str("*"), horizontalRuleWidth |-> Num(3)]),
     Obj([showCollapsibleIndicators |-> Bool(FALSE), tableColumnSeparator |-> Str("!")]),
     Obj([includeUrls |-> Undefined]),
     Obj([lineBreak |-> Str("\r\n"), indentSize |-> Num(1), includeUrls |-> Bool(FALSE),
          showCollapsibleIndicators |-> Bool(FALSE), horizontalRuleChar |-> Str("="),
          horizontalRuleWidth |-> Num(5), tableMinColumnWidth |-> Num(2),
          tableMaxColumnWidth |-> Num(9), tableColumnSeparator |-> Str("/"),
          tableHeaderUnderline |-> Str("~")])}
UrlOptions == {Undefined, Obj([includeUrls |-> Bool(TRUE)]), Obj([includeUrls |-> Bool(FALSE)])}
AnyOptions == {Undefined, Obj([includeUrls |-> Bool(FALSE)]),
               Obj([lineBreak |-> Str("\r\n"), indentSize |-> Num(4)])}

\* top-level values that are no document
NonDocuments ==
    {Undefined, Null, Bool(FALSE), Bool(TRUE), Num(0), Num(5), Str(""),
     Arr(<<>>), Arr(<<Num(1)>>), EmptyObj,
     Obj([root |-> Null]), Obj([root |-> Str("root")]), Obj([root |-> Num(5)]),
     Obj([root |-> EmptyObj]), Obj([root |-> Arr(<<>>)]),
     Obj([root |-> Para(<<Text("a")>>)]),
     Obj([root |-> Obj([children |-> Arr(<<Para(<<Text("a")>>)>>)])]),
     Obj([type |-> Str("root"), children |-> Arr(<<>>)])}

JsonTexts ==
    {"null", " null ", "false", "true", "0", "5", "-12", "\"abc\"", "\"\"", "[]", "[1, 2]",
     "{}", "{\"root\":null}", "{\"root\":\"root\"}", "{\"root\":{}}",
     "{\"root\":{\"type\":\"paragraph\",\"children\":[]}}",
     "{\"root\":{\"type\":\"quote\",\"children\":[{\"type\":\"text\",\"text\":\"q\"}]}}",
     "{\"type\":\"root\",\"children\":[]}",
     "{\"root\":{\"type\":\"root\",\"children\":[],\"version\":1}}",
     "{\"root\":{\"type\":\"root\",\"children\":[{\"type\":\"heading\",\"tag\":\"h1\",\"children\":[{\"type\":\"text\",\"text\":\"Hi\",\"format\":0,\"version\":1}],\"version\":1}],\"version\":1}}",
     "{\"root\":{\"type\":\"root\",\"children\":[{\"type\":\"paragraph\",\"children\":[{\"type\":\"text\",\"text\":\" a \"}]}]}}"}

NonJsonTexts ==
    {"not json {{", "hello", " ", " x ", "\n", "nul", "nulll", "True", "{", "}", "[1,]", "[1",
     "{\"a\":1,}", "{a:1}", "{\"root\":", "'a'", "01", "-", "\"abc", "1 2",
     "{\"root\":{\"type\":\"root\",\"children\":[]}} x", "Hi\n=="}

Calls ==
    [value : NonDocuments \cup {Str(s) : s \in JsonTexts \cup NonJsonTexts},
     options : AnyOptions]
    \cup [value : {Doc(<<n>>) : n \in HeadingNodes}, options : LineBreakOptions]
    \cup [value : {Doc(<<Para(<<n>>)>>) : n \in LinkNodes}, options : UrlOptions]
    \cup [value : {Doc(<<n>>) : n \in ListNodes}, options : {Undefined}]
    \cup [value : {Doc(<<n>>) : n \in TableNodes}, options : TableOptions]
    \cup [value : {Doc(<<n>>) : n \in CollapsibleNodes}, options : CollapsibleOptions]
    \cup [value : {Doc(kids) : kids \in SeqsUpTo(Blocks, MaxBlocks)}, options : LineBreakOptions]
    \cup [value : {Doc(kids) : kids \in SeqsUpTo(StrayNodes \cup {Para(<<Text("a")>>)}, MaxBlocks)}
                  \cup {Doc(<<Para(kids)>>) :
                           kids \in SeqsUpTo(StrayNodes \cup {Text("a")}, MaxInline)},
          options : {Undefined}]
    \cup [value : {Doc(<<n>>) : n \in LayoutNodes}, options : LineBreakOptions]
    \cup [value : {Doc(<<With(Para(<<Text("a")>>), "indent", Num(1))>>),
                   Doc(<<Leaf("horizontalrule")>>)},
          options : ResolutionOptions]
    \cup [value : {Doc(<<n>>) : n \in MalformedNodes}
                  \cup {Obj([root |-> Leaf("root")]), Obj([root |-> Leaf("text")])},
          options : {Undefined}]

-----------------------------------------------------------------------------
(* The state machine: one call of an entry point on one input *)

NoResult == [thrown |-> FALSE, v |-> Undefined]

\* the components and utilities not taking part: nothing rendered
NoProps == [value |-> Undefined, maxLength |-> Undefined, renderNode |-> "none",
            onShowMore |-> FALSE]
NotRendered == [thrown |-> FALSE, v |-> Undefined]
DisplayIdle == props = NoProps /\ rendered = NotRendered
\* no pending update of the editor
NoUpdate == [origin |-> "none", state |-> "", dirty |-> FALSE]
Unmounted ==
    [value |-> Undefined, onChange |-> FALSE, outputFormat |-> "json",
     ignoreSelectionChange |-> TRUE, isInternalUpdate |-> FALSE,
     prevValue |-> Undefined, listener |-> FALSE, editorState |-> "",
     pending |-> NoUpdate, onChangeCalls |-> <<>>, userUpdates |-> 0, unheard |-> FALSE,
     steps |-> 0]
PluginIdle == plugin = Unmounted
\* timeoutId and maxWaitTimeoutId when null; options.maxWait when undefined
NoTimer == 0
NoMaxWait == 0
NotDebounced ==
    [ms |-> 0, maxWait |-> NoMaxWait, timeoutId |-> NoTimer, maxWaitTimeoutId |-> NoTimer,
     lastCallTime |-> -1, timers |-> {}, nextId |-> 1, now |-> 0,
     calls |-> 0, invocations |-> <<>>, burst |-> <<>>, cancels |-> 0, last |-> "none"]
DebounceIdle == debounced = NotDebounced
OutsideExportIdle == DisplayIdle /\ PluginIdle /\ DebounceIdle
ExportIdle ==
    /\ value = Undefined /\ options = Undefined /\ called = "none"
    /\ result = NoResult /\ ctx = NoContext /\ history = <<>>

Init ==
    /\ \E call \in Calls : value = call.value /\ options = call.options
    /\ called = "none"
    /\ result = NoResult
    /\ ctx = NoContext
    /\ history = <<>>
    /\ OutsideExportIdle

\* the record of a call: its entry point, its arguments, the context it
\* started with and its outcome
CallRecord(fn, start, r) ==
    [fn |-> fn, value |-> value, options |-> options, start |-> start,
     result |-> [thrown |-> r.thrown, v |-> r.v]]

CallGeneratePlainText ==
    /\ called = "none"
    /\ LET r == generatePlainText(value, options) IN
         /\ result' = [thrown |-> r.thrown, v |-> r.v]
         /\ ctx' = r.ctx
         /\ history' = Append(history, CallRecord("generatePlainText", NewContext(options), r))
    /\ called' = "generatePlainText"
    /\ UNCHANGED <<value, options>>
    /\ UNCHANGED outsideExport

CallExtractTextContent ==
    /\ called = "none"
    /\ LET r == extractTextContent(value) IN
         /\ result' = [thrown |-> r.thrown, v |-> r.v]
         /\ ctx' = r.ctx
         /\ history' = Append(history, CallRecord("extractTextContent", NoContext, r))
    /\ called' = "extractTextContent"
    /\ UNCHANGED <<value, options>>
    /\ UNCHANGED outsideExport

CallIsSerializedEditorState ==
    /\ called = "none"
    /\ LET r == isSerializedEditorState(value) IN
         /\ result' = [thrown |-> r.thrown, v |-> r.v]
         /\ ctx' = r.ctx
         /\ history' = Append(history, CallRecord("isSerializedEditorState", NoContext, r))
    /\ called' = "isSerializedEditorState"
    /\ UNCHANGED <<value, options>>
    /\ UNCHANGED outsideExport

Next == CallGeneratePlainText \/ CallExtractTextContent \/ CallIsSerializedEditorState

Spec == Init /\ [][Next]_vars

\* a caller making several calls, one after the other
MaxCalls == 3
CrossCalls ==
    {[value |-> Doc(<<List("number", <<ListItem(<<Text("a")>>), ListItem(<<Null>>)>>)>>),
      options |-> Undefined],
     [value |-> Doc(<<List("number", <<ListItem(<<Text("a")>>), ListItem(<<Text("b")>>)>>)>>),
      options |-> Undefined],
     [value |-> Doc(<<List("number", <<ListItem(<<Text("a")>>), ListItem(<<Text("b")>>)>>)>>),
      options |-> Obj([lineBreak |-> Str("\r\n")])],
     [value |-> Doc(<<Elem("code", <<Text("x"), Null>>)>>), options |-> Undefined]}

InitCalls ==
    /\ \E call \in CrossCalls : value = call.value /\ options = call.options
    /\ called = "none"
    /\ result = NoResult
    /\ ctx = NoContext
    /\ history = <<>>
    /\ OutsideExportIdle

\* the caller passing on to its next call
NextCall ==
    /\ called # "none"
    /\ Len(history) < MaxCalls
    /\ \E call \in CrossCalls : value' = call.value /\ options' = call.options
    /\ called' = "none"
    /\ UNCHANGED <<result, ctx, history>>
    /\ UNCHANGED outsideExport

NextCalls ==
    \/ CallGeneratePlainText
    \/ CallExtractTextContent
    \/ CallIsSerializedEditorState
    \/ NextCall

SpecCalls == InitCalls /\ [][NextCalls]_vars

-----------------------------------------------------------------------------
(***************************************************************************)
(* RichTextDisplay (src/unnamed/part_011): the read-only renderer of a     *)
(* serialized editor state.  A rendered node is a record: tag is the       *)
(* element's tag ("#text" for a string, "null" for null), text the string, *)
(* kids the children in order.  Class names, styles and attributes are     *)
(* left out.                                                               *)
(***************************************************************************)
NullEl == [tag |-> "null", text |-> "", kids |-> <<>>]
TextEl(s) == [tag |-> "#text", text |-> s, kids |-> <<>>]
El(tag, kids) == [tag |-> tag, text |-> "", kids |-> kids]

\* the frames of renderNodeContent the engine's call stack holds
StackLimit == 8

\* lines 506-513: the refs as each render resets them; returned lists the
\* strings renderText gave, log the calls of renderNodeContent, inside is
\* the state a renderNode callback keeps of its own
InitialRefs == [charCount |-> 0, isTruncated |-> FALSE, returned |-> <<>>,
                log |-> <<>>, inside |-> FALSE]

\* lines 585-607
renderText(text, refs, maxLength) ==
    IF ~Truthy(maxLength) \/ refs.isTruncated
    THEN IF refs.isTruncated
         THEN Ret(Str(""), [refs EXCEPT !.returned = Append(@, "")])
         ELSE Ret(text, [refs EXCEPT !.returned =
                            IF text.k = "string" THEN Append(@, text.s) ELSE @])
    ELSE IF maxLength.n - refs.charCount <= 0
    THEN Ret(Str(""), [refs EXCEPT !.isTruncated = TRUE, !.returned = Append(@, "")])
    ELSE IF IsNullish(text) THEN Throw("TypeError", refs)
    ELSE IF Len(text.s) <= maxLength.n - refs.charCount
    THEN Ret(text, [refs EXCEPT !.charCount = @ + Len(text.s),
                                !.returned = Append(@, text.s)])
    ELSE Ret(Str(Slice0(text.s, maxLength.n - refs.charCount)),
             [refs EXCEPT !.charCount = maxLength.n, !.isTruncated = TRUE,
                          !.returned = Append(@, Slice0(text.s, maxLength.n - refs.charCount))])

\* the tag of the element each case of the switch returns, lines 661-926
ElementTag(node) ==
    CASE Get(node, "type") = Str("paragraph") -> "p"
      [] Get(node, "type") = Str("heading") -> JsString(Get(node, "tag"))
      [] Get(node, "type") = Str("quote") -> "blockquote"
      [] Get(node, "type") = Str("list") ->
            IF Get(node, "tag") = Str("ol") THEN "ol" ELSE "ul"
      [] Get(node, "type") = Str("listitem") -> "li"
      [] Get(node, "type") \in {Str("link"), Str("autolink")} -> "a"
      [] Get(node, "type") = Str("code") -> "pre"
      [] Get(node, "type") = Str("table") -> "table"
      [] Get(node, "type") = Str("tablerow") -> "tr"
      [] Get(node, "type") = Str("tablecell") ->
            IF Get(node, "headerState").k = "number" /\ Get(node, "headerState").n > 0
            THEN "th" ELSE "td"
      [] Get(node, "type") = Str("collapsible-container") -> "details"
      [] Get(node, "type") = Str("collapsible-title") -> "summary"
      [] OTHER -> "div"
DisplayElementTypes ==
    {Str("paragraph"), Str("heading"), Str("quote"), Str("list"), Str("listitem"),
     Str("link"), Str("autolink"), Str("code"), Str("table"), Str("tablerow"),
     Str("tablecell"), Str("collapsible-container"), Str("collapsible-title"),
     Str("collapsible-content"), Str("layout-container"), Str("layout-item")}
DisplayTextTypes == {Str("text"), Str("code-highlight"), Str("mention"), Str("hashtag")}

\* lines 636-659, 816-827, 930-949: the element of a node whose text went
\* through renderText
TextElement(node, text) ==
    IF ~Truthy(text) THEN NullEl
    ELSE CASE Get(node, "type") = Str("text") ->
                 IF Truthy(Get(node, "format")) \/ Truthy(Get(node, "style"))
                 THEN El("span", <<TextEl(text.s)>>) ELSE TextEl(text.s)
           [] Get(node, "type") = Str("mention") ->
                 El("span", <<TextEl("@"), TextEl(text.s)>>)
           [] OTHER -> El("span", <<TextEl(text.s)>>)

\* the text a node hands to renderText
TextArgument(node) ==
    IF Get(node, "type") = Str("mention")
    THEN OrElse(Get(node, "mentionName"), Get(node, "text"))
    ELSE Get(node, "text")

RECURSIVE renderNodeContent(_, _, _, _)
RECURSIVE renderChildren(_, _, _, _, _, _)
RECURSIVE renderNodeCallback(_, _, _, _)

\* node.children.map((child, i) => renderNodeContent(child, i)), from child
\* i on
renderChildren(children, i, kids, depth, refs, p) ==
    IF children.k # "array" THEN Throw("TypeError", refs)
    ELSE IF i > Len(children.a) THEN Ret(kids, refs)
    ELSE Then(renderNodeContent(children.a[i], depth + 1, refs, p),
              LAMBDA r : renderChildren(children, i + 1, Append(kids, r.v), depth, r.ctx, p))

\* lines 623-973: the switch on node.type
renderByType(node, depth, refs, p) ==
    IF IsNullish(node) THEN Throw("TypeError", refs)
    ELSE IF Get(node, "type") = Str("root")
    THEN Then(renderChildren(Get(node, "children"), 1, <<>>, depth, refs, p),
              LAMBDA r : Ret(El("", r.v), r.ctx))
    ELSE IF Get(node, "type") \in DisplayTextTypes
    THEN Then(renderText(TextArgument(node), refs, p.maxLength),
              LAMBDA r : Ret(TextElement(node, r.v), r.ctx))
    ELSE IF Get(node, "type") = Str("paragraph") /\ Get(node, "children").k = "array"
            /\ Len(Get(node, "children").a) = 0
    THEN Ret(El("p", <<El("br", <<>>)>>), refs)
    ELSE IF Get(node, "type") \in DisplayElementTypes
    THEN Then(renderChildren(Get(node, "children"), 1, <<>>, depth, refs, p),
              LAMBDA r : Ret(El(ElementTag(node), r.v), r.ctx))
    ELSE IF Get(node, "type") = Str("horizontalrule") THEN Ret(El("hr", <<>>), refs)
    ELSE IF Get(node, "type") = Str("linebreak") THEN Ret(El("br", <<>>), refs)
    ELSE IF Get(node, "type") = Str("tab") THEN Ret(El("span", <<TextEl("\t")>>), refs)
    ELSE IF node.k \notin {"object", "array"} THEN Throw("TypeError", refs)
    ELSE IF HasProp(node, "children") /\ Get(node, "children").k = "array"
    THEN Then(renderChildren(Get(node, "children"), 1, <<>>, depth, refs, p),
              LAMBDA r : Ret(El("", r.v), r.ctx))
    ELSE Ret(NullEl, refs)

\* the renderNode prop, as callers may write it: returning null, returning
\* an element of its own for text nodes, returning what defaultRender()
\* returns, or doing so unless it is already running for a node
renderNodeCallback(node, depth, refs, p) ==
    CASE p.renderNode = "null" -> Ret(NullEl, refs)
      [] p.renderNode = "custom" ->
            IF IsNullish(node) THEN Throw("TypeError", refs)
            ELSE IF Get(node, "type") = Str("text") THEN Ret(El("custom", <<>>), refs)
            ELSE Ret(NullEl, refs)
      [] p.renderNode = "wrap" -> renderNodeContent(node, depth + 1, refs, p)
      [] p.renderNode = "wrapOnce" ->
            IF refs.inside THEN Ret(NullEl, refs)
            ELSE Then(renderNodeContent(node, depth + 1, [refs EXCEPT !.inside = TRUE], p),
                      LAMBDA r : Ret(r.v, [r.ctx EXCEPT !.inside = FALSE]))

\* lines 610-975, after the check of truncation: the custom renderer, then
\* the switch
renderCustomOrDefault(node, depth, refs, p) ==
    IF p.renderNode # "none"
    THEN Then(renderNodeCallback(node, depth, refs, p),
              LAMBDA r : IF r.v # NullEl THEN r ELSE renderByType(node, depth, r.ctx, p))
    ELSE renderByType(node, depth, refs, p)

\* the call entered in the log: the type of its node, whether the content
\* was truncated when it began, whether it returned other than null
Logged(node, refs, r) ==
    [r EXCEPT !.ctx.log = Append(@, [type |-> Get(node, "type"),
                                     truncated |-> refs.isTruncated,
                                     rendered |-> ~r.thrown /\ r.v # NullEl])]

\* lines 610-975; a call beyond the engine's stack throws RangeError
renderNodeContent(node, depth, refs, p) ==
    IF depth > StackLimit THEN Throw("RangeError", refs)
    ELSE IF Truthy(p.maxLength) /\ refs.isTruncated
    THEN Logged(node, refs, Ret(NullEl, refs))
    ELSE Logged(node, refs, renderCustomOrDefault(node, depth, refs, p))

\* lines 489-500: the value parsed when it is a string
DisplayedState(val) ==
    IF ~Truthy(val) THEN Null
    ELSE IF val.k = "string"
    THEN IF JSONParse(val.s).ok THEN JSONParse(val.s).v ELSE Null
    ELSE val

\* lines 1014-1036: the root element, with the truncation indicator
RootElement(content, refs, p) ==
    El("div", <<content>>
              \o (IF Truthy(p.maxLength) /\ refs.isTruncated
                  THEN <<El("ellipsis", <<>>)>>
                       \o (IF p.onShowMore THEN <<El("button", <<>>)>> ELSE <<>>)
                  ELSE <<>>))

\* lines 457-1038, without a placeholder
RichTextDisplay(p) ==
    IF ~Truthy(DisplayedState(p.value)) \/ ~Truthy(Get(DisplayedState(p.value), "root"))
    THEN Ret(NullEl, InitialRefs)
    ELSE Then(renderNodeContent(Get(DisplayedState(p.value), "root"), 1, InitialRefs, p),
              LAMBDA r : Ret(RootElement(r.v, r.ctx, p), r.ctx))

\* the props of the renders checked
MaxLengthProp == 3
DisplayInline ==
    {Text(""), Text("a"), Text("bc"), Mention("m", "@m"), TextLike("hashtag", "#h"),
     Leaf("linebreak"), Link("link", "u", <<Text("l")>>)}
DisplayBlocks ==
    {Para(s) : s \in SeqsUpTo(DisplayInline, MaxInline)}
    \cup {Elem("heading", <<Text("Hi")>>), Leaf("horizontalrule"),
          Elem("code", <<TextLike("code-highlight", "x")>>)}
DisplayValues ==
    {Doc(<<b>>) : b \in DisplayBlocks}
    \cup {Doc(<<Para(<<Text("ab")>>), b>>) : b \in DisplayBlocks}
    \cup {Undefined, Null, Str(""), Str("{"), Str("{\"root\":null}"),
          Str("{\"root\":{\"type\":\"root\",\"children\":[{\"type\":\"paragraph\",\"children\":[{\"type\":\"text\",\"text\":\" a \"}]}]}}")}
MaxLengths == {Undefined} \cup {Num(n) : n \in 0..MaxLengthProp}
RenderNodeProps == {"none", "null", "custom", "wrap", "wrapOnce"}
DisplayProps ==
    [value : DisplayValues, maxLength : MaxLengths, renderNode : {"none"},
     onShowMore : BOOLEAN]
    \cup [value : DisplayValues, maxLength : {Undefined, Num(2)},
          renderNode : RenderNodeProps, onShowMore : {FALSE}]

InitDisplay ==
    /\ props \in DisplayProps
    /\ rendered = NotRendered
    /\ ExportIdle
    /\ PluginIdle
    /\ DebounceIdle

\* one render of the component
RenderRichTextDisplay ==
    /\ rendered = NotRendered
    /\ LET r == RichTextDisplay(props) IN
         rendered' = [thrown |-> r.thrown, v |-> r.v, refs |-> r.ctx]
    /\ UNCHANGED props
    /\ UNCHANGED outsideDisplay

NextDisplay == RenderRichTextDisplay

SpecDisplay == InitDisplay /\ [][NextDisplay]_vars

-----------------------------------------------------------------------------
(***************************************************************************)
(* OnChangePlugin (src/unnamed/part_001).  The editor is a Lexical editor: *)
(* its state is stood for by the text it holds; editor.update() leaves a   *)
(* pending update that is committed before any other task runs, and        *)
(* editor.setEditorState() commits at once; a commit calls the update      *)
(* listeners registered.                                                   *)
(***************************************************************************)
\* JSON.stringify(editorState.toJSON()) of the state holding text c; the
\* state root.clear() leaves serializes to the string of line 386
EmptyStateJson ==
    "{\"root\":{\"children\":[],\"direction\":null,\"format\":\"\",\"indent\":0,\"type\":\"root\",\"version\":1}}"
JsonOfState(c) ==
    IF c = "" THEN EmptyStateJson
    ELSE "{\"root\":{\"children\":[{\"children\":[{\"text\":\"" \o c
         \o "\",\"type\":\"text\"}],\"type\":\"paragraph\"}],\"type\":\"root\"}}"
HtmlOfState(c) == IF c = "" THEN "" ELSE "<p>" \o c \o "</p>"

\* lines 324-343
getContent(editorState, outputFormat) ==
    CASE outputFormat = "html" -> HtmlOfState(editorState)
      [] outputFormat = "text" -> editorState
      [] OTHER -> JsonOfState(editorState)

\* the text of the nodes $generateNodesFromDOM makes of an HTML string
RECURSIVE StripTags(_, _)
StripTags(s, inTag) ==
    IF s = "" THEN ""
    ELSE IF Head(s) = Head("<") THEN StripTags(Tail(s), TRUE)
    ELSE IF Head(s) = Head(">") THEN StripTags(Tail(s), FALSE)
    ELSE IF inTag THEN StripTags(Tail(s), inTag)
    ELSE SubSeq(s, 1, 1) \o StripTags(Tail(s), inTag)

\* the texts an editor may hold
EditorTexts == {"", "a", "b", "hello"}

\* editor.parseEditorState on a parsed value, then editor.setEditorState:
\* the state whose serialization the value is; a value that is no
\* serialization of a state, or is that of the empty state, makes one of the
\* two throw
SettableStates(parsed) == {c \in EditorTexts \ {""} : JSONParse(JsonOfState(c)).v = parsed}

\* lines 350-365: the update listener, called with a committed update
UpdateListener(pl, upd) ==
    IF pl.isInternalUpdate THEN [pl EXCEPT !.isInternalUpdate = FALSE]
    ELSE IF pl.ignoreSelectionChange /\ ~upd.dirty THEN pl
    ELSE [pl EXCEPT !.onChangeCalls =
             Append(@, [origin |-> upd.origin, dirty |-> upd.dirty,
                        content |-> getContent(upd.state, pl.outputFormat)])]

\* the commit of an update: the editor takes the state, the listeners
\* registered are called
CommitUpdate(pl, upd) ==
    IF pl.listener
    THEN UpdateListener([pl EXCEPT !.editorState = upd.state, !.pending = NoUpdate], upd)
    ELSE [pl EXCEPT !.editorState = upd.state, !.pending = NoUpdate]

\* editor.update(fn, {tag: 'controlled-value-update'}) leaving the state c
\* to commit
SyncUpdate(pl, c) == [pl EXCEPT !.pending = [origin |-> "sync", state |-> c, dirty |-> TRUE]]

\* String.prototype.includes
Includes(s, part) == \E i \in 0..(Len(s) - Len(part)) : SubSeq(s, i + 1, i + Len(part)) = part

\* lines 415-453: the value as HTML, else as plain text; selected tells
\* whether $getSelection() gives a selection after root.clear()
SyncHtmlOrText(pl, selected) ==
    IF Includes(pl.value.s, "<")
    THEN SyncUpdate([pl EXCEPT !.isInternalUpdate = TRUE], StripTags(pl.value.s, FALSE))
    ELSE SyncUpdate([pl EXCEPT !.isInternalUpdate = TRUE],
                    IF selected THEN pl.value.s ELSE "")

\* lines 399-413: the value as a serialized state
SyncJson(pl, selected) ==
    LET parsedState == JSONParse(pl.value.s) IN
    IF /\ parsedState.ok
       /\ Truthy(parsedState.v)
       /\ IsTypeofObject(parsedState.v)
       /\ Truthy(Get(parsedState.v, "root"))
    THEN IF SettableStates(parsedState.v) # {}
         THEN CommitUpdate([pl EXCEPT !.isInternalUpdate = TRUE],
                           [origin |-> "sync", dirty |-> TRUE,
                            state |-> CHOOSE c \in SettableStates(parsedState.v) : TRUE])
         ELSE SyncHtmlOrText([pl EXCEPT !.isInternalUpdate = TRUE], selected)
    ELSE SyncHtmlOrText(pl, selected)

\* lines 369-453: the effect of the controlled value
SyncValue(pl, selected) ==
    IF pl.value = Undefined THEN pl
    ELSE IF pl.prevValue = pl.value THEN pl
    ELSE IF getContent(pl.editorState, pl.outputFormat) = pl.value.s
    THEN [pl EXCEPT !.prevValue = pl.value]
    ELSE IF pl.value.s = "" \/ pl.value.s = EmptyStateJson
    THEN SyncUpdate([pl EXCEPT !.prevValue = pl.value], "")
    ELSE SyncJson([pl EXCEPT !.prevValue = pl.value], selected)

\* lines 346-367: the effect registering the listener when there is an
\* onChange
RegisterListener(pl) ==
    [pl EXCEPT !.listener = pl.onChange, !.unheard = @ \/ ~pl.onChange]

MaxSteps == 3
PluginValues ==
    {Undefined, Str(""), Str(EmptyStateJson), Str(JsonOfState("a")), Str(JsonOfState("b")),
     Str("<p>b</p>"), Str("hello"), Str("{\"root\":{\"type\":\"unknown\"}}")}

\* the mount: prevValue starts as the value, the editor holds some text
InitPlugin ==
    /\ \E v \in PluginValues, oc \in BOOLEAN, fmt \in {"json", "text", "html"},
          ignore \in BOOLEAN, c \in {"", "a"} :
          plugin = RegisterListener(
                      [Unmounted EXCEPT !.value = v, !.onChange = oc, !.outputFormat = fmt,
                                        !.ignoreSelectionChange = ignore, !.prevValue = v,
                                        !.editorState = c])
    /\ ExportIdle
    /\ DisplayIdle
    /\ DebounceIdle

\* a render with new props: the effects run in their order
Rerender ==
    /\ plugin.pending = NoUpdate
    /\ plugin.steps < MaxSteps
    /\ \E v \in PluginValues, oc \in BOOLEAN, selected \in BOOLEAN :
          plugin' = SyncValue(RegisterListener(
                                 [plugin EXCEPT !.value = v, !.onChange = oc,
                                                !.steps = @ + 1]), selected)
    /\ UNCHANGED outsidePlugin

\* the user changes the content, or the selection alone
UserUpdate ==
    /\ plugin.pending = NoUpdate
    /\ plugin.steps < MaxSteps
    /\ \E c \in {"a", "b"}, dirty \in BOOLEAN :
          /\ dirty <=> c # plugin.editorState
          /\ plugin' = [plugin EXCEPT !.pending = [origin |-> "user", state |-> c, dirty |-> dirty],
                                      !.userUpdates = IF dirty /\ plugin.listener THEN @ + 1 ELSE @,
                                      !.steps = @ + 1]
    /\ UNCHANGED outsidePlugin

\* the pending update is committed
Commit ==
    /\ plugin.pending # NoUpdate
    /\ plugin' = CommitUpdate(plugin, plugin.pending)
    /\ UNCHANGED outsidePlugin

NextPlugin == Rerender \/ UserUpdate \/ Commit

SpecPlugin == InitPlugin /\ [][NextPlugin]_vars

-----------------------------------------------------------------------------
(***************************************************************************)
(* debounce (src/src/plugins/CodeActionMenuPlugin/utils.ts).  Time is a    *)
(* counter of units; the timers pending are a table of the environment,    *)
(* each with the time it is due and the arguments its callback closed      *)
(* over.  A timer fires when it is due: the clock does not pass a due      *)
(* timer, and timers due together fire in the order they were set.         *)
(***************************************************************************)
\* setTimeout(invokeFunc, delay): the table with the new timer, whose id is
\* d.nextId
SetTimeout(d, kind, args, delay) ==
    [d EXCEPT !.timers = @ \cup {[id |-> d.nextId, due |-> d.now + delay,
                                  kind |-> kind, args |-> args]},
              !.nextId = @ + 1]

ClearTimeout(d, id) == [d EXCEPT !.timers = {t \in @ : t.id # id}]

\* lines 24-34
cancel(d) ==
    LET d1 == IF d.timeoutId # NoTimer
              THEN [ClearTimeout(d, d.timeoutId) EXCEPT !.timeoutId = NoTimer] ELSE d
        d2 == IF d1.maxWaitTimeoutId # NoTimer
              THEN [ClearTimeout(d1, d1.maxWaitTimeoutId) EXCEPT !.maxWaitTimeoutId = NoTimer]
              ELSE d1
    IN [d2 EXCEPT !.lastCallTime = -1]

\* lines 39-42: invokeFunc with the arguments it closed over; the
\* invocation is entered with what the calls before it were
invokeFunc(d, args) ==
    [cancel(d) EXCEPT !.invocations =
        Append(@, [time |-> d.now, args |-> args, burst |-> d.burst]),
                      !.burst = <<>>, !.last = "invoke"]

\* the call keeping the timer it replaces
ClearRegularTimer_Kept(d) == d

\* lines 44-47
ClearRegularTimer(d) ==
    IF d.timeoutId # NoTimer THEN ClearTimeout(d, d.timeoutId) ELSE d

\* the maxWait timer set anew by every call
SetMaxWaitTimer_Restarted(d, args) ==
    IF d.maxWait # NoMaxWait
    THEN [SetTimeout(ClearTimeout(d, d.maxWaitTimeoutId), "maxWait", args, d.maxWait)
             EXCEPT !.lastCallTime = d.now, !.maxWaitTimeoutId = d.nextId]
    ELSE d

\* lines 49-53
SetMaxWaitTimer(d, args) ==
    IF d.maxWait # NoMaxWait /\ d.maxWaitTimeoutId = NoTimer
    THEN [SetTimeout(d, "maxWait", args, d.maxWait)
             EXCEPT !.lastCallTime = d.now, !.maxWaitTimeoutId = d.nextId]
    ELSE d

\* lines 55-56
SetRegularTimer(d, args) ==
    [SetTimeout(d, "regular", args, d.ms) EXCEPT !.timeoutId = d.nextId]

\* lines 36-57
debouncedFn(d, args) ==
    SetRegularTimer(SetMaxWaitTimer(ClearRegularTimer(d), args), args)

MaxTime == 6
MaxDebounceCalls == 3
MaxDelay == 3
Arguments == {"x", "y"}

\* lines 15-19: debounce(fn, ms, options)
InitDebounce ==
    /\ \E ms \in 1..MaxDelay, maxWait \in {NoMaxWait} \cup 1..(MaxDelay + 1) :
          debounced = [NotDebounced EXCEPT !.ms = ms, !.maxWait = maxWait]
    /\ ExportIdle
    /\ DisplayIdle
    /\ PluginIdle

\* a call of the debounced function
CallDebounced ==
    /\ debounced.calls < MaxDebounceCalls
    /\ \E args \in Arguments :
          debounced' = [debouncedFn(debounced, args) EXCEPT
                           !.calls = @ + 1,
                           !.burst = Append(@, [time |-> debounced.now, args |-> args]),
                           !.last = "call"]
    /\ UNCHANGED outsideDebounce

\* a call of cancel(), by the caller or by the cleanup of useDebounce
CallCancel ==
    /\ debounced.cancels = 0
    /\ debounced' = [cancel(debounced) EXCEPT !.cancels = @ + 1, !.burst = <<>>,
                                               !.last = "cancel"]
    /\ UNCHANGED outsideDebounce

\* the timer due first fires: it leaves the table and its callback runs
TimerFires ==
    /\ \E t \in debounced.timers :
          /\ t.due <= debounced.now
          /\ \A u \in debounced.timers : u.due > t.due \/ (u.due = t.due /\ u.id >= t.id)
          /\ debounced' = invokeFunc([debounced EXCEPT !.timers = @ \ {t}], t.args)
    /\ UNCHANGED outsideDebounce

\* a unit of time passes, no timer being due
Tick ==
    /\ debounced.now < MaxTime
    /\ \A t \in debounced.timers : t.due > debounced.now
    /\ debounced' = [debounced EXCEPT !.now = @ + 1]
    /\ UNCHANGED outsideDebounce

NextDebounce == CallDebounced \/ CallCancel \/ TimerFires \/ Tick

SpecDebounce == InitDebounce /\ [][NextDebounce]_vars

-----------------------------------------------------------------------------
(* What the properties speak of *)

Generated == called = "generatePlainText"
Extracted == called = "extractTextContent"
Guarded == called = "isSerializedEditorState"
Returned(s) == ~result.thrown /\ result.v = Str(s)

\* the option the call resolves: the one passed, or else the documented default
OptionGiven(name) == options.k = "object" /\ name \in DOMAIN options.o
GivenLineBreak == IF OptionGiven("lineBreak") THEN options.o.lineBreak.s ELSE "\n"
GivenIndentSize == IF OptionGiven("indentSize") THEN options.o.indentSize.n ELSE 2
GivenIncludeUrls == IF OptionGiven("includeUrls") THEN options.o.includeUrls.b ELSE TRUE
GivenIndicators ==
    IF OptionGiven("showCollapsibleIndicators")
    THEN options.o.showCollapsibleIndicators.b ELSE TRUE
GivenMinWidth ==
    IF OptionGiven("tableMinColumnWidth") THEN options.o.tableMinColumnWidth.n ELSE 3
GivenMaxWidth ==
    IF OptionGiven("tableMaxColumnWidth") THEN options.o.tableMaxColumnWidth.n ELSE 30
GivenSeparator ==
    IF OptionGiven("tableColumnSeparator") THEN options.o.tableColumnSeparator.s ELSE "|"

HasField(n, key) == n.k = "object" /\ key \in DOMAIN n.o
HasType(n, type) == HasField(n, "type") /\ n.o.type = Str(type)
HasChildrenArray(n) == HasField(n, "children") /\ n.o.children.k = "array"
ChildrenOf(n) == n.o.children.a

\* a document: an object whose root is an object of type 'root'
IsDocument(v) == HasField(v, "root") /\ HasType(v.o.root, "root")

\* the rendering of a sequence of children under the options of the call
Rendered(children) == processChildren(Arr(children), NewContext(options)).v.s

ElementKinds ==
    {"root", "paragraph", "heading", "quote", "list", "listitem", "link", "autolink",
     "code", "table", "tablerow", "tablecell", "collapsible-container",
     "collapsible-title", "collapsible-content", "layout-container", "layout-item"}
TextKinds == {"text", "code-highlight", "mention", "hashtag"}
KnownKinds == ElementKinds \cup TextKinds \cup {"horizontalrule", "linebreak", "tab"}

RECURSIVE WellFormedNode(_)
\* the node grammar: element nodes carry a children array of well-formed
\* nodes, text leaves carry a text, an indent is an integer >= 0
WellFormedNode(n) ==
    /\ HasField(n, "type") /\ n.o.type.k = "string"
    /\ n.o.type.s \in ElementKinds => HasChildrenArray(n)
    /\ n.o.type.s \in TextKinds => HasField(n, "text") /\ n.o.text.k = "string"
    /\ HasField(n, "indent") => n.o.indent.k = "number" /\ n.o.indent.n >= 0
    /\ HasField(n, "children") =>
          /\ n.o.children.k = "array"
          /\ \A i \in 1..Len(n.o.children.a) : WellFormedNode(n.o.children.a[i])

IsWellFormedDocument(v) == IsDocument(v) /\ WellFormedNode(v.o.root)

\* a well-formed document whose root has exactly one child, of the type given
IsSingleBlock(v, type) ==
    /\ IsWellFormedDocument(v)
    /\ Len(ChildrenOf(v.o.root)) = 1
    /\ HasType(ChildrenOf(v.o.root)[1], type)
TheBlock == ChildrenOf(value.o.root)[1]

\* C1: on every well-formed document tree, with default options,
\* generatePlainText does not throw and returns a string.
C1_WellFormedReturnsString ==
    (Generated /\ options = Undefined /\ IsWellFormedDocument(value))
        => (~result.thrown /\ result.v.k = "string")

C1_Witness ==
    /\ Generated /\ options = Undefined /\ IsWellFormedDocument(value)
    /\ Len(ChildrenOf(value.o.root)) = MaxBlocks
    /\ HasType(ChildrenOf(value.o.root)[1], "table")
    /\ HasType(ChildrenOf(value.o.root)[2], "future-unknown-leaf")
    /\ Returned("c  \n---")

\* the top-level inputs C2 is about: anything that is no document, given as a
\* value or as the JSON text of one
JsonTextOf(v) == v.k = "string" /\ v.s \in JsonTexts
IsNonDocumentInput(v) ==
    IF v.k = "string" THEN JsonTextOf(v) /\ ~IsDocument(JSONParse(v.s).v)
    ELSE ~IsDocument(v)

\* C2: for every top-level input that is no document with a root of type
\* 'root' (a value, or a string whose JSON parse yields one),
\* generatePlainText returns '' and does not throw.
C2_NonDocumentReturnsEmpty ==
    (Generated /\ IsNonDocumentInput(value)) => Returned("")

\* documents with a node that lacks an expected field: an element of a
\* recognised type without children array, or a text leaf without text
MissingFieldDocuments ==
    {Doc(<<Leaf(type)>>) : type \in ElementTypes \cup TextTypes}
    \cup {Doc(<<Para(<<Leaf(type)>>)>>) : type \in ElementTypes \cup TextTypes}
    \cup {Obj([root |-> Leaf("root")])}

\* C3: neither entry point throws on a tree whose nodes are missing expected
\* fields; the outcome is a string.
C3_MissingFieldsNeverThrow ==
    ((Generated \/ Extracted) /\ value \in MissingFieldDocuments)
        => (~result.thrown /\ result.v.k = "string")

\* C4: a non-empty string that is not valid JSON is returned exactly as it
\* was given, by both entry points and whatever the options.
C4_InvalidJsonReturnedUnchanged ==
    ((Generated \/ Extracted) /\ value.k = "string" /\ value.s \in NonJsonTexts)
        => (~result.thrown /\ result.v = value)

C4_Witness ==
    /\ Generated /\ options # Undefined
    /\ value = Str(" x ") /\ Returned(" x ")

\* s is the character ch repeated
IsRunOf(s, ch) == \A i \in 1..Len(s) : CharAt(s, i) = ch

\* out is content, one line break, then ch repeated as many times as content
\* has characters
IsUnderlined(out, content, lineBreak, ch) ==
    /\ Len(out) = 2 * Len(content) + Len(lineBreak)
    /\ SubSeq(out, 1, Len(content)) = content
    /\ SubSeq(out, Len(content) + 1, Len(content) + Len(lineBreak)) = lineBreak
    /\ IsRunOf(SubSeq(out, Len(content) + Len(lineBreak) + 1, Len(out)), ch)

\* C5: a heading h1 (h2) renders as its content, one lineBreak, and a run of
\* '=' ('-') exactly as long as the rendered content, empty content included.
C5_HeadingUnderlineLength ==
    (Generated /\ IsSingleBlock(value, "heading") /\ HasField(TheBlock, "tag")
       /\ TheBlock.o.tag \in {Str("h1"), Str("h2")})
        => /\ ~result.thrown
           /\ IsUnderlined(result.v.s, Rendered(ChildrenOf(TheBlock)), GivenLineBreak,
                           IF TheBlock.o.tag = Str("h1") THEN "=" ELSE "-")

C5_Witness ==
    /\ Generated /\ IsSingleBlock(value, "heading")
    /\ HasField(TheBlock, "tag") /\ TheBlock.o.tag = Str("h1")
    /\ ChildrenOf(TheBlock) = <<Text(" b"), Leaf("linebreak")>>
    /\ Returned(" b\n\n===")

\* the children of a node that have the type given, in order
ChildrenOfType(n, type) == SelectSeq(ChildrenOf(n), LAMBDA kid : HasType(kid, type))

IsNumberedList(v) ==
    /\ IsSingleBlock(v, "list")
    /\ HasField(ChildrenOf(v.o.root)[1], "listType")
    /\ ChildrenOf(v.o.root)[1].o.listType = Str("number")
\* the start of a numbered list: its start field, 1 when it has none
StartOf(list) == IF HasField(list, "start") THEN list.o.start.n ELSE 1
IndentOf(n) == IF HasField(n, "indent") THEN n.o.indent.n ELSE 0

\* the items of a numbered list, numbered from its start on: each is its
\* indentation, its number and '. ', and the rendering of its own children
\* (a nested list among them counts on its own)
NumberedItems(list) ==
    [j \in 1..Len(ChildrenOfType(list, "listitem")) |->
        Repeat(" ", GivenIndentSize * IndentOf(ChildrenOfType(list, "listitem")[j]))
        \o IntToString(StartOf(list) + j - 1) \o ". "
        \o Rendered(ChildrenOf(ChildrenOfType(list, "listitem")[j]))]

\* C6: the k items of a numbered list with integer start s (1 when absent)
\* are emitted in order with the prefixes 's. ' up to 's+k-1. ', nested
\* numbered lists inside the items notwithstanding.
C6_NumberedListPrefixes ==
    (Generated /\ IsNumberedList(value))
        => Returned(JoinStrings(NumberedItems(TheBlock), GivenLineBreak))

\* the same, for the lists whose start is not 0
C6_NonZeroStartPrefixes ==
    (Generated /\ IsNumberedList(value) /\ StartOf(TheBlock) # 0)
        => Returned(JoinStrings(NumberedItems(TheBlock), GivenLineBreak))

Range(f) == {f[i] : i \in DOMAIN f}
SetMax(S) == CHOOSE x \in S : \A y \in S : y <= x

\* the text of a table cell: the rendering of its children, trimmed
CellText(cell) == Trim(Rendered(ChildrenOf(cell)))
\* the texts of column col in the rows that have one
ColumnTexts(table, col) ==
    {CellText(ChildrenOfType(row, "tablecell")[col]) :
        row \in {r \in Range(ChildrenOfType(table, "tablerow")) :
                    Len(ChildrenOfType(r, "tablecell")) >= col}}
ColumnCount(table) ==
    SetMax({0} \cup {Len(ChildrenOfType(row, "tablecell")) :
                        row \in Range(ChildrenOfType(table, "tablerow"))})
\* max(min, min(longest trimmed cell of the column, max))
WidthOf(table, col) ==
    Max(GivenMinWidth,
        Min(SetMax({0} \cup {Len(s) : s \in ColumnTexts(table, col)}), GivenMaxWidth))
\* the cells of the lines of a rendered table
EmittedCells(out) ==
    [i \in 1..Len(Split(out, GivenLineBreak)) |->
        Split(Split(out, GivenLineBreak)[i], " " \o GivenSeparator \o " ")]

\* C7: every cell emitted for a column of a table has exactly the length of
\* the column's width, max(min, min(longest trimmed cell, max)), truncated
\* cells included, for all non-negative min <= max.
C7_CellLengthIsColumnWidth ==
    (Generated /\ IsSingleBlock(value, "table") /\ ColumnCount(TheBlock) > 0
       /\ 0 <= GivenMinWidth /\ GivenMinWidth <= GivenMaxWidth)
        => /\ ~result.thrown
           /\ \A i \in DOMAIN EmittedCells(result.v.s) :
                 /\ Len(EmittedCells(result.v.s)[i]) = ColumnCount(TheBlock)
                 /\ \A col \in 1..ColumnCount(TheBlock) :
                       Len(EmittedCells(result.v.s)[i][col]) = WidthOf(TheBlock, col)

\* the same, for the tables none of whose cells is longer than the maximum
C7_UntruncatedCellLength ==
    (Generated /\ IsSingleBlock(value, "table") /\ ColumnCount(TheBlock) > 0
       /\ 0 <= GivenMinWidth /\ GivenMinWidth <= GivenMaxWidth
       /\ \A col \in 1..ColumnCount(TheBlock) :
             \A s \in ColumnTexts(TheBlock, col) : Len(s) <= GivenMaxWidth)
        => /\ ~result.thrown
           /\ \A i \in DOMAIN EmittedCells(result.v.s) :
                 /\ Len(EmittedCells(result.v.s)[i]) = ColumnCount(TheBlock)
                 /\ \A col \in 1..ColumnCount(TheBlock) :
                       Len(EmittedCells(result.v.s)[i][col]) = WidthOf(TheBlock, col)

\* a document of one paragraph that holds one link or autolink
IsLinkDocument(v) ==
    /\ IsSingleBlock(v, "paragraph")
    /\ HasChildrenArray(ChildrenOf(v.o.root)[1])
    /\ Len(ChildrenOf(ChildrenOf(v.o.root)[1])) = 1
    /\ \/ HasType(ChildrenOf(ChildrenOf(v.o.root)[1])[1], "link")
       \/ HasType(ChildrenOf(ChildrenOf(v.o.root)[1])[1], "autolink")
TheLink == ChildrenOf(TheBlock)[1]
LinkWithUrl(text, url) == text \o " (" \o url \o ")"

\* C8 as stated: a link renders as its children followed by ' (url)' exactly
\* when includeUrls is true and the url differs from the rendered text, and
\* as the text alone otherwise.
C8_UrlWhenDifferent ==
    (Generated /\ IsLinkDocument(value) /\ HasField(TheLink, "url"))
        => Returned(IF GivenIncludeUrls
                       /\ TheLink.o.url.s # Rendered(ChildrenOf(TheLink))
                    THEN LinkWithUrl(Rendered(ChildrenOf(TheLink)), TheLink.o.url.s)
                    ELSE Rendered(ChildrenOf(TheLink)))

\* C8 amended: a link renders as its children followed by ' (url)' exactly
\* when includeUrls is true, the url is not empty and differs from the
\* rendered text; a link with an empty url, or none, renders as the text alone.
C8_UrlWhenNonEmptyAndDifferent ==
    (Generated /\ IsLinkDocument(value))
        => Returned(IF /\ GivenIncludeUrls
                       /\ HasField(TheLink, "url")
                       /\ TheLink.o.url.s # ""
                       /\ TheLink.o.url.s # Rendered(ChildrenOf(TheLink))
                    THEN LinkWithUrl(Rendered(ChildrenOf(TheLink)), TheLink.o.url.s)
                    ELSE Rendered(ChildrenOf(TheLink)))

C8_Witness ==
    /\ Generated /\ IsLinkDocument(value) /\ GivenIncludeUrls
    /\ HasType(TheLink, "autolink")
    /\ HasField(TheLink, "url") /\ TheLink.o.url = Str("https://x.com")
    /\ Returned("Hiu (https://x.com)")

RECURSIVE IndentedFrom(_, _, _, _)
\* s from position i on, with indent put after every line break in it
IndentedFrom(s, i, lineBreak, indent) ==
    IF i > Len(s) THEN ""
    ELSE IF StartsAt(s, lineBreak, i)
    THEN lineBreak \o indent \o IndentedFrom(s, i + Len(lineBreak), lineBreak, indent)
    ELSE CharAt(s, i) \o IndentedFrom(s, i + 1, lineBreak, indent)
\* every line of s, the first included, prefixed with indent
IndentedLines(s, lineBreak, indent) == indent \o IndentedFrom(s, 1, lineBreak, indent)

\* the rendering of the children of the child of the type given, '' when the
\* container has no such child
PartText(container, type) ==
    IF Len(ChildrenOfType(container, type)) = 0 THEN ""
    ELSE Rendered(ChildrenOf(ChildrenOfType(container, type)[1]))
\* a collapsible container with at most one title and at most one content
IsCollapsibleDocument(v) ==
    /\ IsSingleBlock(v, "collapsible-container")
    /\ Len(ChildrenOfType(ChildrenOf(v.o.root)[1], "collapsible-title")) <= 1
    /\ Len(ChildrenOfType(ChildrenOf(v.o.root)[1], "collapsible-content")) <= 1
DetailsBody ==
    Elem("collapsible-container",
         <<Elem("collapsible-title", <<Text("Details")>>),
           Elem("collapsible-content", <<Para(<<Text("Body")>>)>>)>>)

\* C9: with showCollapsibleIndicators true a collapsible container renders
\* as indicator, ' ', title, lineBreak and the content with every line,
\* the first included, prefixed with indentSize spaces; the indicator is
\* '[+]' when open is false and '[-]' otherwise, open absent included; a
\* missing title or content counts as ''. Title 'Details' and content
\* 'Body' with open false render as '[+] Details\n  Body' by default.
C9_CollapsibleIndicatorAndIndent ==
    /\ (Generated /\ IsCollapsibleDocument(value) /\ GivenIndicators)
          => Returned((IF HasField(TheBlock, "open") /\ TheBlock.o.open = Bool(FALSE)
                       THEN "[+]" ELSE "[-]")
                      \o " " \o PartText(TheBlock, "collapsible-title")
                      \o GivenLineBreak
                      \o IndentedLines(PartText(TheBlock, "collapsible-content"),
                                       GivenLineBreak, Repeat(" ", GivenIndentSize)))
    /\ (Generated /\ options = Undefined
          /\ value = Doc(<<With(DetailsBody, "open", Bool(FALSE))>>))
          => Returned("[+] Details\n  Body")

C9_Witness ==
    /\ Generated /\ options = Obj([indentSize |-> Num(4)])
    /\ IsCollapsibleDocument(value) /\ ~HasField(TheBlock, "open")
    /\ Len(ChildrenOfType(TheBlock, "collapsible-title")) = 0
    /\ Returned("[-] \n    a\n    \n    b")

IsUnknown(n) == HasField(n, "type") /\ n.o.type.k = "string" /\ n.o.type.s \notin KnownKinds

RECURSIVE Concatenated(_)
\* the renderings of the nodes one after the other, nothing in between
Concatenated(nodes) ==
    IF Len(nodes) = 0 THEN ""
    ELSE Rendered(<<Head(nodes)>>) \o Concatenated(Tail(nodes))

RECURSIVE Contributions(_)
\* what the nodes contribute to their parent: an unknown node with a children
\* array the concatenation of its children, an unknown node without one
\* nothing, any other node its rendering
Contributions(nodes) ==
    IF Len(nodes) = 0 THEN <<>>
    ELSE (IF ~IsUnknown(Head(nodes)) THEN <<Rendered(<<Head(nodes)>>)>>
          ELSE IF HasChildrenArray(Head(nodes))
          THEN <<Concatenated(ChildrenOf(Head(nodes)))>>
          ELSE <<>>)
         \o Contributions(Tail(nodes))

\* documents of paragraphs and nodes of unknown type, one at least of the latter
IsUnknownDocument(v) ==
    /\ IsWellFormedDocument(v)
    /\ \A i \in 1..Len(ChildrenOf(v.o.root)) :
          IsUnknown(ChildrenOf(v.o.root)[i]) \/ HasType(ChildrenOf(v.o.root)[i], "paragraph")
    /\ \E i \in 1..Len(ChildrenOf(v.o.root)) : IsUnknown(ChildrenOf(v.o.root)[i])

\* C10: a node of unknown type renders as the plain concatenation of its
\* children when it has a children array, and otherwise contributes nothing:
\* no text and, at root level, no separator; neither case is an error.
C10_UnknownTypeFallback ==
    /\ (Generated /\ IsUnknownDocument(value))
          => Returned(JoinStrings(Contributions(ChildrenOf(value.o.root)),
                                  GivenLineBreak \o GivenLineBreak))
    /\ (Generated /\ IsSingleBlock(value, "heading") /\ HasField(TheBlock, "tag")
          /\ TheBlock.o.tag = Str("h3"))
          => Returned("### " \o JoinStrings(Contributions(ChildrenOf(TheBlock)), ""))

C10_Witness ==
    /\ Generated /\ options = Obj([lineBreak |-> Str("\r\n")])
    /\ IsUnknownDocument(value)
    /\ ChildrenOf(value.o.root) =
          <<Leaf("future-unknown-leaf"), Elem("future-unknown-block", <<Text("x"), Text("y")>>)>>
    /\ Returned("xy")

\* a non-null object whose root is a non-null object of type 'root' with a
\* children array
IsEditorStateShape(v) ==
    /\ HasField(v, "root")
    /\ HasType(v.o.root, "root")
    /\ HasChildrenArray(v.o.root)

\* C11: isSerializedEditorState(value) is true exactly when value is a
\* non-null object whose root is a non-null object with type 'root' and an
\* array children (the empty array included); for every other value it is
\* false, and it never throws.
C11_TypeGuardExact ==
    Guarded => /\ ~result.thrown
               /\ result.v = Bool(IsEditorStateShape(value))

C11_Witness ==
    /\ Guarded /\ value = Doc(<<>>)
    /\ ~result.thrown /\ result.v = Bool(TRUE)

\* the input as the entry points see it: the value, or what its JSON text
\* stands for
IsParsedInput(v) == v.k = "string" => v.s \in JsonTexts
ParsedValue(v) == IF v.k = "string" THEN JSONParse(v.s).v ELSE v

RECURSIVE IsNodeTree(_)
\* an object all of whose descendants are objects, text leaves with their text
IsNodeTree(n) ==
    /\ n.k = "object"
    /\ (HasField(n, "type") /\ n.o.type.k = "string" /\ n.o.type.s \in TextKinds)
          => (HasField(n, "text") /\ n.o.text.k = "string")
    /\ HasField(n, "children") =>
          /\ n.o.children.k = "array"
          /\ \A i \in 1..Len(n.o.children.a) : IsNodeTree(n.o.children.a[i])

BlockKinds == {"paragraph", "heading", "quote", "listitem", "code"}
KindOf(n) == IF HasField(n, "type") /\ n.o.type.k = "string" THEN n.o.type.s ELSE ""
\* the name of a mention: mentionName when present and not empty, else text
NameOf(n) ==
    IF HasField(n, "mentionName") /\ n.o.mentionName.k = "string"
       /\ n.o.mentionName.s # ""
    THEN n.o.mentionName.s ELSE n.o.text.s

RECURSIVE TextOf(_)
RECURSIVE TextOfAll(_)
\* the text of a subtree in document order: the text of the leaves, '@' and
\* the name for a mention, a line feed for a linebreak, a tab for a tab, and
\* one line feed after each paragraph, heading, quote, listitem and code
TextOf(n) ==
    CASE KindOf(n) \in {"text", "code-highlight", "hashtag"} -> n.o.text.s
      [] KindOf(n) = "mention" -> "@" \o NameOf(n)
      [] KindOf(n) = "linebreak" -> "\n"
      [] KindOf(n) = "tab" -> "\t"
      [] OTHER ->
            IF ~HasChildrenArray(n) THEN ""
            ELSE TextOfAll(ChildrenOf(n))
                 \o (IF KindOf(n) \in BlockKinds THEN "\n" ELSE "")
TextOfAll(nodes) ==
    IF Len(nodes) = 0 THEN "" ELSE TextOf(Head(nodes)) \o TextOfAll(Tail(nodes))

\* an input with a root that is a node of another type than 'root'
HasForeignRoot(v) ==
    /\ HasField(v, "root")
    /\ IsNodeTree(v.o.root)
    /\ ~HasType(v.o.root, "root")
\* an input without root
HasNoRoot(v) == v.k = "object" /\ (HasField(v, "root") => IsNullish(v.o.root))

EndsClean(s) ==
    s = "" \/ (CharAt(s, 1) \notin WhiteSpace /\ CharAt(s, Len(s)) \notin WhiteSpace)

\* C13: on a parsed document extractTextContent returns the concatenation
\* in document order of the leaf texts, '@'+name for mentions, a line feed
\* for linebreak and a tab for tab nodes, with one line feed after each
\* paragraph, heading, quote, listitem and code, the whole trimmed: the
\* result has no leading or trailing whitespace.
C13_ExtractedText ==
    (Extracted /\ IsParsedInput(value) /\ IsWellFormedDocument(ParsedValue(value)))
        => /\ Returned(Trim(TextOf(ParsedValue(value).o.root)))
           /\ EndsClean(result.v.s)

C13_Witness ==
    /\ Extracted /\ IsSingleBlock(value, "list")
    /\ Len(ChildrenOfType(TheBlock, "listitem")) = MaxItems
    /\ Returned("a\ndx\ny\n\nc")

\* the defaults as documented
DocumentedDefaults ==
    [lineBreak |-> Str("\n"),
     indentSize |-> Num(2),
     includeUrls |-> Bool(TRUE),
     showCollapsibleIndicators |-> Bool(TRUE),
     horizontalRuleChar |-> Str("-"),
     horizontalRuleWidth |-> Num(40),
     tableMinColumnWidth |-> Num(3),
     tableMaxColumnWidth |-> Num(30),
     tableColumnSeparator |-> Str("|"),
     tableHeaderUnderline |-> Str("-")]
\* the caller supplies a value for the option
Supplied(name) == OptionGiven(name) /\ options.o[name] # Undefined
ResolvedAsDocumented ==
    /\ DOMAIN ctx.options = DOMAIN DocumentedDefaults
    /\ \A name \in DOMAIN DocumentedDefaults :
          ctx.options[name] = IF Supplied(name) THEN options.o[name]
                              ELSE DocumentedDefaults[name]

\* C14: in every call of generatePlainText each option the caller supplies
\* no value for resolves to its documented default, and each option supplied
\* overrides only itself; the defaults stay as they are.
C14_OptionResolution ==
    (Generated /\ ctx.created)
        => (ResolvedAsDocumented /\ DEFAULT_OPTIONS = DocumentedDefaults)

\* the same, for the calls whose options object has no undefined property
C14_ResolutionOfDefinedOptions ==
    (Generated /\ ctx.created
       /\ (options.k = "object" => \A name \in DOMAIN options.o : Supplied(name)))
        => (ResolvedAsDocumented /\ DEFAULT_OPTIONS = DocumentedDefaults)

\* C15: when every text, url, mention name and string option of the call is
\* ASCII (as all of the model's are), the string generatePlainText returns
\* holds ASCII characters only, tables with cells longer than their column
\* included.
C15_AsciiOnlyOutput ==
    (Generated /\ ~result.thrown /\ result.v.k = "string")
        => \A i \in 1..Len(result.v.s) : CharAt(result.v.s, i) \notin NonAsciiUnits

\* the types that render through their structural parent only
StructuralKinds ==
    {"listitem", "tablerow", "tablecell", "collapsible-title", "collapsible-content",
     "layout-item"}
IsStray(n) == KindOf(n) \in StructuralKinds

RECURSIVE RootContributions(_)
\* the renderings of the top-level children that contribute: all but the
\* nodes of a structural type and the unknown nodes without children
RootContributions(nodes) ==
    IF Len(nodes) = 0 THEN <<>>
    ELSE (IF IsStray(Head(nodes))
             \/ (IsUnknown(Head(nodes)) /\ ~HasChildrenArray(Head(nodes)))
          THEN <<>> ELSE <<Rendered(<<Head(nodes)>>)>>)
         \o RootContributions(Tail(nodes))

\* C16: the root's output is the renderings of the top-level children that
\* contribute, joined by lineBreak+lineBreak, nothing before the first or
\* after the last; a child without contribution (a stray listitem, tablerow,
\* tablecell, collapsible-title, collapsible-content or layout-item, or an
\* unknown node without children) adds no separator.
C16_RootJoinsContributions ==
    (Generated /\ IsWellFormedDocument(value))
        => Returned(JoinStrings(RootContributions(ChildrenOf(value.o.root)),
                                GivenLineBreak \o GivenLineBreak))

C16_Witness ==
    /\ Generated /\ options = Obj([lineBreak |-> Str("\r\n")])
    /\ IsWellFormedDocument(value)
    /\ Len(ChildrenOf(value.o.root)) = MaxBlocks
    /\ HasType(ChildrenOf(value.o.root)[1], "quote")
    /\ Returned("> q\r\n> r\r\n\r\n    b")

\* a document of paragraphs and stray nodes at top level, or of one paragraph
\* of texts and stray nodes; one stray node at least
IsStrayAtRoot(v) ==
    /\ IsWellFormedDocument(v)
    /\ \A i \in 1..Len(ChildrenOf(v.o.root)) :
          IsStray(ChildrenOf(v.o.root)[i]) \/ HasType(ChildrenOf(v.o.root)[i], "paragraph")
    /\ \E i \in 1..Len(ChildrenOf(v.o.root)) : IsStray(ChildrenOf(v.o.root)[i])
IsStrayInParagraph(v) ==
    /\ IsSingleBlock(v, "paragraph")
    /\ \A i \in 1..Len(ChildrenOf(ChildrenOf(v.o.root)[1])) :
          \/ IsStray(ChildrenOf(ChildrenOf(v.o.root)[1])[i])
          \/ HasType(ChildrenOf(ChildrenOf(v.o.root)[1])[i], "text")
    /\ \E i \in 1..Len(ChildrenOf(ChildrenOf(v.o.root)[1])) :
          IsStray(ChildrenOf(ChildrenOf(v.o.root)[1])[i])

\* each node's rendering, a stray node's being the concatenation of the
\* renderings of its children
WithStrayChildren(nodes) ==
    [i \in 1..Len(nodes) |->
        IF IsStray(nodes[i]) THEN Concatenated(ChildrenOf(nodes[i]))
        ELSE Rendered(<<nodes[i]>>)]
\* the renderings of the nodes that are not stray
WithoutStray(nodes) ==
    [i \in 1..Len(SelectSeq(nodes, LAMBDA n : ~IsStray(n))) |->
        Rendered(<<SelectSeq(nodes, LAMBDA n : ~IsStray(n))[i]>>)]

\* C17 as stated: a tablerow, tablecell, listitem, collapsible-title,
\* collapsible-content or layout-item met outside its structural parent (as
\* a child of root or of a paragraph) renders as the concatenation of the
\* renderings of its children.
C17_StrayRendersChildren ==
    /\ (Generated /\ IsStrayAtRoot(value))
          => Returned(JoinStrings(WithStrayChildren(ChildrenOf(value.o.root)),
                                  GivenLineBreak \o GivenLineBreak))
    /\ (Generated /\ IsStrayInParagraph(value))
          => Returned(JoinStrings(WithStrayChildren(ChildrenOf(TheBlock)), ""))

\* C17 amended: such a node met outside its structural parent renders
\* nothing: neither it nor its children add text to a paragraph, and as a
\* child of root it adds neither text nor separator.
C17_StrayRendersNothing ==
    /\ (Generated /\ IsStrayAtRoot(value))
          => Returned(JoinStrings(WithoutStray(ChildrenOf(value.o.root)),
                                  GivenLineBreak \o GivenLineBreak))
    /\ (Generated /\ IsStrayInParagraph(value))
          => Returned(JoinStrings(WithoutStray(ChildrenOf(TheBlock)), ""))

C17_Witness ==
    /\ Generated /\ IsStrayInParagraph(value)
    /\ ChildrenOf(TheBlock) = <<Elem("tablecell", <<Text("s")>>), Text("a")>>
    /\ Returned("a")

RECURSIVE SubNodes(_)
\* a node and all its descendants
SubNodes(n) ==
    {n} \cup (IF HasChildrenArray(n)
              THEN UNION {SubNodes(ChildrenOf(n)[i]) : i \in 1..Len(ChildrenOf(n))}
              ELSE {})
\* the counters left by processNode on a node, entered with the counters given
CountersAfter(n, counters) ==
    processNode(n, [NewContext(options) EXCEPT !.listCounters = counters]).ctx.listCounters
\* s holds p
Contains(s, p) == \E i \in 1..Len(s) : StartsAt(s, p, i)

\* C18: a numbered list pushes one counter before its items and pops one
\* after them: processing any node of the tree leaves the stack as deep as
\* it found it, the stack is empty when generatePlainText returns, and no
\* numbered item takes its prefix from an empty stack (which would read
\* 'NaN. ').
C18_ListCounterStackDiscipline ==
    (Generated /\ IsWellFormedDocument(value))
        => /\ ~result.thrown /\ ctx.created
           /\ ctx.listCounters = <<>>
           /\ \A n \in SubNodes(value.o.root) :
                 \A counters \in {<<>>, <<Num(3)>>} :
                    Len(CountersAfter(n, counters)) = Len(counters)
           /\ ~Contains(result.v.s, "NaN. ")

C18_Witness ==
    /\ Generated /\ IsNumberedList(value) /\ StartOf(TheBlock) = 5
    /\ NestedList \in SubNodes(value.o.root)
    /\ Len(ChildrenOfType(TheBlock, "listitem")) = MaxItems
    /\ ChildrenOf(TheBlock)[MaxItems] = ListItem(<<Text("a")>>)
    /\ ~result.thrown /\ ctx.created /\ ctx.listCounters = <<>>

GivenUnderline ==
    IF OptionGiven("tableHeaderUnderline") THEN options.o.tableHeaderUnderline.s ELSE "-"
IsHeaderCell(cell) ==
    HasField(cell, "headerState") /\ cell.o.headerState.k = "number"
    /\ cell.o.headerState.n > 0
HasHeaderCell(row) ==
    \E i \in 1..Len(ChildrenOfType(row, "tablecell")) :
       IsHeaderCell(ChildrenOfType(row, "tablecell")[i])
\* the place among the table's rows of the first with a header cell, 0 when
\* there is none
HeaderRow(table) ==
    IF \E r \in 1..Len(ChildrenOfType(table, "tablerow")) :
          HasHeaderCell(ChildrenOfType(table, "tablerow")[r])
    THEN CHOOSE r \in 1..Len(ChildrenOfType(table, "tablerow")) :
            /\ HasHeaderCell(ChildrenOfType(table, "tablerow")[r])
            /\ \A q \in 1..(r - 1) : ~HasHeaderCell(ChildrenOfType(table, "tablerow")[q])
    ELSE 0
\* each column's underline repeated width times, joined as the cells are
UnderlineRow(table) ==
    JoinStrings([col \in 1..ColumnCount(table) |->
                    Repeat(GivenUnderline, WidthOf(table, col))],
                " " \o GivenSeparator \o " ")
\* a table with rows
IsTableDocument(v) ==
    /\ IsSingleBlock(v, "table")
    /\ Len(ChildrenOfType(ChildrenOf(v.o.root)[1], "tablerow")) > 0
TableLinesOf(out) == Split(out, GivenLineBreak)

\* C19: the header-underline row (each column's tableHeaderUnderline
\* repeated width times, joined like the cells) is emitted once, right
\* after the first tablerow that has a cell with headerState > 0, and not at
\* all when no cell has; nodes that are no tablerow before the header row
\* do not change that.
C19_HeaderUnderlineOnce ==
    (Generated /\ IsTableDocument(value))
        => /\ ~result.thrown
           /\ Len(TableLinesOf(result.v.s))
                 = Len(ChildrenOfType(TheBlock, "tablerow"))
                   + (IF HeaderRow(TheBlock) > 0 THEN 1 ELSE 0)
           /\ HeaderRow(TheBlock) > 0
                 => TableLinesOf(result.v.s)[HeaderRow(TheBlock) + 1] = UnderlineRow(TheBlock)

C19_Witness ==
    /\ Generated /\ IsTableDocument(value) /\ options = Undefined
    /\ Len(ChildrenOf(TheBlock)) = MaxRows
    /\ HasType(ChildrenOf(TheBlock)[1], "paragraph")
    /\ HeaderRow(TheBlock) = 1
    /\ Returned("Name | Age\n---- | ---")

\* the row a line of the rendered table stands for, the underline row apart
RowOfLine(i, header) == IF header = 0 \/ i <= header THEN i ELSE i - 1

\* C20: every row emitted for a table, the header-underline row included,
\* has columnCount cells, columnCount being the largest number of tablecell
\* children of a row; a row with fewer cells is completed with empty cells
\* padded with spaces to the width of their column.
C20_RowsHaveColumnCountCells ==
    (Generated /\ IsTableDocument(value) /\ ColumnCount(TheBlock) > 0)
        => /\ ~result.thrown
           /\ \A i \in DOMAIN EmittedCells(result.v.s) :
                 /\ Len(EmittedCells(result.v.s)[i]) = ColumnCount(TheBlock)
                 /\ i # HeaderRow(TheBlock) + 1 \/ HeaderRow(TheBlock) = 0
                       => \A col \in 1..ColumnCount(TheBlock) :
                             col > Len(ChildrenOfType(
                                         ChildrenOfType(TheBlock, "tablerow")
                                            [RowOfLine(i, HeaderRow(TheBlock))],
                                         "tablecell"))
                                => EmittedCells(result.v.s)[i][col]
                                      = Repeat(" ", WidthOf(TheBlock, col))

C20_Witness ==
    /\ Generated /\ IsTableDocument(value) /\ options = Undefined
    /\ ColumnCount(TheBlock) = 3
    /\ Len(ChildrenOfType(ChildrenOfType(TheBlock, "tablerow")[1], "tablecell")) = 2
    /\ Returned("Name | Age |      \n---- | --- | -----\n     | xy  | abcde")

\* the contents of the layout items of a container, trimmed, the empty ones
\* left out
TrimmedItems(container) ==
    SelectSeq([i \in 1..Len(ChildrenOfType(container, "layout-item")) |->
                  Trim(Rendered(ChildrenOf(ChildrenOfType(container, "layout-item")[i])))],
              LAMBDA s : s # "")
LayoutDivider == GivenLineBreak \o GivenLineBreak \o "---" \o GivenLineBreak \o GivenLineBreak

\* C21: a layout-container renders as the trimmed content of each
\* layout-item child, the items empty after trimming left out, joined by
\* lineBreak+lineBreak+'---'+lineBreak+lineBreak; no item emitted begins or
\* ends with whitespace, and children that are no layout-item are ignored.
C21_LayoutItemsTrimmed ==
    (Generated /\ IsSingleBlock(value, "layout-container"))
        => Returned(JoinStrings(TrimmedItems(TheBlock), LayoutDivider))

\* the same, for the containers whose items have no whitespace around their
\* content unless they hold nothing else
C21_LayoutItemsJoined ==
    (Generated /\ IsSingleBlock(value, "layout-container")
       /\ \A i \in 1..Len(ChildrenOfType(TheBlock, "layout-item")) :
             Rendered(ChildrenOf(ChildrenOfType(TheBlock, "layout-item")[i]))
                \in {"", " ", "mn"})
        => Returned(JoinStrings(TrimmedItems(TheBlock), LayoutDivider))

\* the prefix of item j of a list whose numbered items count from first on
PrefixOf(list, item, j, first) ==
    CASE HasType(list, "list") /\ HasField(list, "listType")
         /\ list.o.listType = Str("bullet") -> "- "
      [] HasField(list, "listType") /\ list.o.listType = Str("number") ->
            IntToString(first + j - 1) \o ". "
      [] HasField(list, "listType") /\ list.o.listType = Str("check") ->
            IF HasField(item, "checked") /\ item.o.checked = Bool(TRUE)
            THEN "[x] " ELSE "[ ] "
      [] OTHER -> "- "
ListLines(list, first) ==
    [j \in 1..Len(ChildrenOfType(list, "listitem")) |->
        Repeat(" ", GivenIndentSize * IndentOf(ChildrenOfType(list, "listitem")[j]))
        \o PrefixOf(list, ChildrenOfType(list, "listitem")[j], j, first)
        \o Rendered(ChildrenOf(ChildrenOfType(list, "listitem")[j]))]
FirstNumbers == -3..6

\* C22: a listitem renders as its indentation (indent x indentSize spaces),
\* a prefix and its children concatenated; the prefix follows the parent's
\* listType alone: '- ' for bullet, 'n. ' for number, '[x] ' for check when
\* checked is true and '[ ] ' otherwise, '- ' for any other or missing
\* listType; children of a list that are no listitem give no line and take
\* no number.
C22_ListItemPrefix ==
    (Generated /\ IsSingleBlock(value, "list"))
        => \E first \in FirstNumbers :
              Returned(JoinStrings(ListLines(TheBlock, first), GivenLineBreak))

C22_Witness ==
    /\ Generated /\ IsSingleBlock(value, "list")
    /\ HasField(TheBlock, "listType") /\ TheBlock.o.listType = Str("check")
    /\ Len(ChildrenOf(TheBlock)) = MaxItems
    /\ HasType(ChildrenOf(TheBlock)[2], "paragraph")
    /\ Returned("[x] b\n  [ ] c")

\* C23: no state crosses invocations.  Two calls of the same entry point on
\* the same arguments have the same outcome, whatever calls were made before
\* them; each call starts with an empty list-counter stack and inCodeBlock
\* false; and a call leaves its arguments as they were.
C23_NoStateAcrossCalls ==
    /\ \A i, j \in 1..Len(history) :
          (/\ history[i].fn = history[j].fn
           /\ history[i].value = history[j].value
           /\ history[i].options = history[j].options)
             => history[i].result = history[j].result
    /\ \A i \in 1..Len(history) :
          history[i].start.listCounters = <<>> /\ ~history[i].start.inCodeBlock
    /\ called # "none" =>
          /\ history[Len(history)].value = value
          /\ history[Len(history)].options = options

\* a call on a numbered list after a call that threw inside a numbered list,
\* giving what the same call gave before
C23_Witness ==
    /\ Len(history) = MaxCalls
    /\ history[1].fn = "generatePlainText" /\ history[1].result = [thrown |-> FALSE, v |-> Str("1. a\n2. b")]
    /\ history[2].fn = "generatePlainText" /\ history[2].result.thrown
    /\ history[3] = history[1]

DisplayRendered == rendered # NotRendered
\* what the component renders without a renderNode prop
DefaultRendering == RichTextDisplay([props EXCEPT !.renderNode = "none"])
HasRoot == Truthy(DisplayedState(props.value)) /\ Truthy(Get(DisplayedState(props.value), "root"))

\* C24: a renderNode callback may call the defaultRender it is given: the
\* call terminates and gives the default rendering of the node, without
\* entering the custom renderer for the same node again and again.
C24_DefaultRenderTerminates ==
    (DisplayRendered /\ props.renderNode = "wrap")
        => (~rendered.thrown /\ rendered.v = DefaultRendering.v)

\* the same for a callback that calls defaultRender only when it is not
\* already running
C24_GuardedDefaultRender ==
    (DisplayRendered /\ props.renderNode = "wrapOnce")
        => (~rendered.thrown /\ rendered.v = DefaultRendering.v)

RECURSIVE SumLen(_)
SumLen(strings) ==
    IF strings = <<>> THEN 0 ELSE Len(Head(strings)) + SumLen(Tail(strings))

\* the number of characters the nodes of a tree hand to renderText
RECURSIVE TextLength(_)
RECURSIVE TextLengthOfAll(_)
TextLength(node) ==
    IF Get(node, "type") \in DisplayTextTypes THEN Len(TextArgument(node).s)
    ELSE IF HasChildrenArray(node) THEN TextLengthOfAll(ChildrenOf(node))
    ELSE 0
TextLengthOfAll(nodes) ==
    IF nodes = <<>> THEN 0 ELSE TextLength(Head(nodes)) + TextLengthOfAll(Tail(nodes))

IsBudgeted ==
    /\ DisplayRendered /\ ~rendered.thrown /\ HasRoot
    /\ props.renderNode = "none"
    /\ props.maxLength.k = "number" /\ props.maxLength.n > 0
ShowsEllipsis == \E i \in 1..Len(rendered.v.kids) : rendered.v.kids[i] = El("ellipsis", <<>>)

\* the sum of the lengths renderText returned is within maxLength
C25_WithinBudget ==
    IsBudgeted => SumLen(rendered.refs.returned) <= props.maxLength.n

\* a node reached after the content was truncated renders nothing
C25_NothingAfterTruncation ==
    IsBudgeted => \A i \in 1..Len(rendered.refs.log) :
                     rendered.refs.log[i].truncated => ~rendered.refs.log[i].rendered

\* C25: with maxLength = N > 0 the strings renderText returns sum to N
\* characters at most; once the content is truncated no later node renders
\* anything; and the ellipsis is shown exactly when some text was left out.
C25_TruncationBudget ==
    IsBudgeted =>
        /\ SumLen(rendered.refs.returned) <= props.maxLength.n
        /\ \A i \in 1..Len(rendered.refs.log) :
              rendered.refs.log[i].truncated => ~rendered.refs.log[i].rendered
        /\ ShowsEllipsis <=>
              SumLen(rendered.refs.returned)
                 < TextLength(Get(DisplayedState(props.value), "root"))

\* no node of the tree hands renderText the empty string
RECURSIVE NoEmptyText(_)
NoEmptyText(node) ==
    IF Get(node, "type") \in DisplayTextTypes THEN TextArgument(node).s # ""
    ELSE HasChildrenArray(node)
            => \A i \in 1..Len(ChildrenOf(node)) : NoEmptyText(ChildrenOf(node)[i])

\* the ellipsis is shown exactly when some text was left out, in the trees
\* without empty text
C25_EllipsisWhenTextOmitted ==
    (IsBudgeted /\ NoEmptyText(Get(DisplayedState(props.value), "root")))
        => (ShowsEllipsis <=>
               SumLen(rendered.refs.returned)
                  < TextLength(Get(DisplayedState(props.value), "root")))

CallsFrom(origin) ==
    Cardinality({i \in 1..Len(plugin.onChangeCalls) :
                    plugin.onChangeCalls[i].origin = origin /\ plugin.onChangeCalls[i].dirty})

\* C26: OnChangePlugin never calls onChange for an update of the editor it
\* made itself to follow the controlled value, whatever the path: the clear
\* on an empty value, a parsed state, parsed HTML, plain text.
C26_NoOnChangeForSync == CallsFrom("sync") = 0

\* the same on the paths that set isInternalUpdate: no onChange for a sync to
\* a value that is not empty
C26_NoOnChangeForFlaggedSync ==
    \A i \in 1..Len(plugin.onChangeCalls) :
       plugin.onChangeCalls[i].origin = "sync"
          => plugin.onChangeCalls[i].content = getContent("", plugin.outputFormat)

\* C27: OnChangePlugin never swallows a user edit.  Each update of the user
\* that dirties content, made while an onChange is registered, leads to one
\* call of onChange; isInternalUpdate is set only for a sync update that
\* reaches the listener, which clears it: it is never left set once the
\* update is committed.
C27_NoUserEditSwallowed ==
    plugin.pending = NoUpdate
        => /\ CallsFrom("user") = plugin.userUpdates
           /\ ~plugin.isInternalUpdate

\* the first half alone: one call of onChange for each update of the user
\* that dirties content
C27_EachUserEditReported ==
    plugin.pending = NoUpdate => CallsFrom("user") = plugin.userUpdates

\* the same where an onChange was there at every render since the mount
C27_NoUserEditSwallowedWhileListening ==
    (plugin.pending = NoUpdate /\ ~plugin.unheard)
        => /\ CallsFrom("user") = plugin.userUpdates
           /\ ~plugin.isInternalUpdate

Invocation(i) == debounced.invocations[i]
Invocations == 1..Len(debounced.invocations)
FirstOf(burst) == burst[1]
LastOf(burst) == burst[Len(burst)]
TimersOf(kind) == {t \in debounced.timers : t.kind = kind}

\* C28: every invocation of the wrapped function by debounce, with or
\* without maxWait, passes the arguments of the most recent call made before
\* it.
C28_LatestArguments ==
    \A i \in Invocations :
       Invocation(i).burst # <<>> /\ Invocation(i).args = LastOf(Invocation(i).burst).args

\* the same without maxWait
C28_LatestArgumentsWithoutMaxWait ==
    debounced.maxWait = NoMaxWait
        => \A i \in Invocations :
              Invocation(i).burst # <<>>
                 /\ Invocation(i).args = LastOf(Invocation(i).burst).args

\* C29: in every interleaving of calls, timer expiries and cancel(), at most
\* one regular timer and at most one maxWait timer are pending; after an
\* invocation or a cancel() no timer is pending; so each invocation follows
\* a call made since the invocation or cancel() before it: the function is
\* invoked once per burst at most, and never after cancel() unless it is
\* called again.
C29_TimerDiscipline ==
    /\ Cardinality(TimersOf("regular")) <= 1
    /\ Cardinality(TimersOf("maxWait")) <= 1
    /\ debounced.last \in {"invoke", "cancel"} => debounced.timers = {}
    /\ \A i \in Invocations : Invocation(i).burst # <<>>
    /\ debounced.burst = <<>> => debounced.timers = {}

\* an invocation closing a burst of two calls that had both timers pending,
\* in a run where cancel() was called and the function called again
C29_Witness ==
    /\ debounced.maxWait # NoMaxWait
    /\ debounced.cancels = 1
    /\ debounced.last = "invoke"
    /\ Len(Invocation(Len(debounced.invocations)).burst) = 2
    /\ debounced.calls = MaxDebounceCalls

IsMaxWaitRun == debounced.maxWait # NoMaxWait /\ debounced.cancels = 0

\* C30: with maxWait configured and no cancel(), the wrapped function is
\* invoked no later than maxWait units after the first call of a burst, even
\* if calls keep arriving less than ms apart; without further calls it is
\* invoked ms after the last call.
C30_DeadlineAndTrailingDelay ==
    IsMaxWaitRun
        => /\ \A i \in Invocations :
                 /\ Invocation(i).time <= FirstOf(Invocation(i).burst).time + debounced.maxWait
                 /\ Invocation(i).time = LastOf(Invocation(i).burst).time + debounced.ms
           /\ debounced.burst # <<>>
                 => debounced.now <= FirstOf(debounced.burst).time + debounced.maxWait

Earlier(a, b) == IF a <= b THEN a ELSE b

\* the same, the invocation coming ms after the last call unless maxWait
\* after the first call comes earlier
C30_DeadlineOrTrailingDelay ==
    IsMaxWaitRun
        => /\ \A i \in Invocations :
                 Invocation(i).time =
                    Earlier(FirstOf(Invocation(i).burst).time + debounced.maxWait,
                            LastOf(Invocation(i).burst).time + debounced.ms)
           /\ debounced.burst # <<>>
                 => debounced.now <= Earlier(FirstOf(debounced.burst).time + debounced.maxWait,
                                             LastOf(debounced.burst).time + debounced.ms)

\* calls less than ms apart, the invocation coming maxWait after the first
\* of them and before ms have passed since the last
C30_Witness ==
    /\ IsMaxWaitRun
    /\ debounced.last = "invoke"
    /\ Len(Invocation(1).burst) = MaxDebounceCalls
    /\ Invocation(1).time = FirstOf(Invocation(1).burst).time + debounced.maxWait
    /\ Invocation(1).time < LastOf(Invocation(1).burst).time + debounced.ms

=============================================================================
